---- MODULE Spec2Model ----
(***************************************************************************)
(* Model of xmlui-org/trace-tools: the semantic comparator                 *)
(* (compare-traces.js), the `run` command of the test runner               *)
(* (test-base.sh) and the trace distiller (distill-trace.js).              *)
(*                                                                         *)
(* Strings that the code takes apart (URLs, "METHOD endpoint" signatures,  *)
(* ignore patterns) are sequences of tokens: a path segment, a query       *)
(* parameter, a host prefix or a method word.  A substring test is a       *)
(* contiguous-subsequence test on tokens.  Strings that the code only      *)
(* compares (labels, names, ids) are TLA+ strings; "" is the missing or    *)
(* empty (falsy) value.  perfTs 0 is the missing (falsy) timestamp.        *)
(***************************************************************************)
EXTENDS Integers, Sequences, FiniteSets, TLC

VARIABLES
    logA,          \* first raw event log (the baseline of a run)
    logB,          \* second raw event log (the trace captured by a run)
    trace1,        \* first argument handed to compareSemanticTraces
    trace2,        \* second argument handed to compareSemanticTraces
    ignoreApis,    \* options.ignoreApis of the last comparison
    report,        \* the report compareSemanticTraces returned
    testExit,      \* TEST_EXIT: exit status of the generated Playwright script
    captured,      \* whether captured-trace.json exists after the script ran
    semanticOutput,\* SEMANTIC_OUTPUT: the lines the comparator CLI printed
    baselineFound, \* whether the baseline file of the journey exists
    exitCode,      \* exit code of `test.sh run`
    rawLogs,       \* the raw event log handed to distillJsonLogs
    steps,         \* the steps of the journey distillJsonLogs returned
    probeTs,       \* the perfTs the modifier resolver was last asked about
    activeMods,    \* the modifier keys it reported active
    journey,       \* normalized.steps: the steps handed to the script generator
    orderedSteps,  \* the steps reorderFormSteps returned
    script,        \* the lines of the generated Playwright script
    methodArg,     \* the method handed to resolveMethod
    urlArg,        \* the url handed to resolveMethod
    resolved,      \* what resolveMethod returned
    callTimeline,  \* the modifierTimeline array of the last distillJsonLogs call
    firstLog,      \* the log of the first distillJsonLogs call
    firstSteps,    \* the steps that call returned
    otherLog,      \* the log of the last call on a log other than firstLog
    callPhase,     \* "none", "first" (one log distilled so far) or "later"
    entryInput,    \* what an entry point is given: a file's text or a value
    outcome,       \* what the entry point did with it: a journey or an error
    pc             \* "input", "compared", "exited", "distilled", "resolved",
                   \* "reordered", "generated", "method", "distilledFile"
                   \* or "normalized"

compareVars == <<logA, logB, trace1, trace2, ignoreApis, report,
                 testExit, captured, semanticOutput, baselineFound, exitCode>>
distillVars == <<rawLogs, steps, probeTs, activeMods>>
genVars == <<journey, orderedSteps, script>>
resolveVars == <<methodArg, urlArg, resolved>>
callVars == <<callTimeline, firstLog, firstSteps, otherLog, callPhase>>
inputVars == <<entryInput, outcome>>
vars == <<compareVars, distillVars, genVars, resolveVars, callVars, inputVars, pc>>

----------------------------------------------------------------------------
(* Tokens and token strings                                                *)

Seg(s) == [k |-> "seg", s |-> s, v |-> ""]       \* "/s"
Qp(p, v) == [k |-> "q", s |-> p, v |-> v]        \* "?p=v" or "&p=v"
Host(h) == [k |-> "host", s |-> h, v |-> ""]     \* "http://h"
Word(w) == [k |-> "word", s |-> w, v |-> ""]     \* a method word of a signature

\* String.prototype.includes on token strings
Includes(str, pat) ==
    \E i \in 0..(Len(str) - Len(pat)) : SubSeq(str, i + 1, i + Len(pat)) = pat

\* str.split('?')[0]: everything before the first query token
BeforeQuery(str) ==
    LET qs == {i \in 1..Len(str) : str[i].k = "q"}
    IN  IF qs = {} THEN str
        ELSE SubSeq(str, 1, (CHOOSE i \in qs : \A j \in qs : i <= j) - 1)

\* str.replace(/^.*\/api/, ''): greedy, cuts through the last "/api"
StripApiPrefix(str) ==
    LET as == {i \in 1..Len(str) : str[i] = Seg("api")}
    IN  IF as = {} THEN str
        ELSE SubSeq(str, (CHOOSE i \in as : \A j \in as : i >= j) + 1, Len(str))

Range(s) == {s[i] : i \in 1..Len(s)}

\* [...new Set(s)]: first occurrences, in order
RECURSIVE DedupeSeq(_)
DedupeSeq(s) ==
    IF s = <<>> THEN <<>>
    ELSE LET init == DedupeSeq(SubSeq(s, 1, Len(s) - 1))
         IN  IF s[Len(s)] \in Range(init) THEN init ELSE Append(init, s[Len(s)])

----------------------------------------------------------------------------
(* Raw events of the structured log (window._xsLogs)                       *)

\* The method field of an api event: a bare verb, the unevaluated binding
\* {$queryParams.p == 'v' ? 't' : 'f'}, another expression that contains a
\* verb word, a string with no verb in it, or nothing.
NoMethod == [form |-> "none", text |-> "", p |-> "", v |-> "", t |-> "", f |-> ""]
Verb(w) == [NoMethod EXCEPT !.form = "verb", !.text = w]
Ternary(p, v, t, f) ==
    [form |-> "ternary", text |-> "", p |-> p, v |-> v, t |-> t, f |-> f]
Embedded(w) == [NoMethod EXCEPT !.form = "embedded", !.text = w]
Opaque(x) == [NoMethod EXCEPT !.form = "opaque", !.text = x]

\* Every field an event may carry; "", 0, <<>>, FALSE and NoMethod stand for
\* an absent field.
NoEvent ==
    [kind |-> "", traceId |-> "", perfTs |-> 0,
     interaction |-> "", eventName |-> "", action |-> "",
     uid |-> "", componentLabel |-> "", componentType |-> "",
     dText |-> "", dKey |-> "", dLabel |-> "", dTestId |-> "",
     dAriaRole |-> "", dAriaName |-> "", target |-> "",
     ctrlKey |-> FALSE, shiftKey |-> FALSE, metaKey |-> FALSE, altKey |-> FALSE,
     method |-> NoMethod, url |-> <<>>, endpoint |-> <<>>, status |-> 0,
     argName |-> "", to |-> <<>>, toastType |-> "", message |-> "",
     title |-> "", buttonLabel |-> "", diffJson |-> <<>>]

ApiComplete(tid, m, u) ==
    [NoEvent EXCEPT !.kind = "api:complete", !.traceId = tid, !.method = m,
                    !.url = u, !.status = 200]
Submit(tid, name) ==
    [NoEvent EXCEPT !.kind = "handler:start", !.traceId = tid,
                    !.eventName = "submit", !.argName = name]
Navigate(tid, to) ==
    [NoEvent EXCEPT !.kind = "navigate", !.traceId = tid, !.to = to]
\* an interaction as the engine logs it: the action name is in `interaction`
Interaction(tid, ts, act, uid, text) ==
    [NoEvent EXCEPT !.kind = "interaction", !.traceId = tid, !.perfTs = ts,
                    !.interaction = act, !.uid = uid, !.dText = text]
\* an interaction carrying the fields the comparator reads (action, detail.label)
ActionInteraction(tid, act, label) ==
    [NoEvent EXCEPT !.kind = "interaction", !.traceId = tid,
                    !.action = act, !.dLabel = label]

\* traceId.startsWith('startup-'), on the trace ids that occur
StartupIds == {"startup-1", "startup-2"}
IsStartupId(tid) == tid \in StartupIds

\* e.url || e.endpoint
UrlOrEndpoint(e) == IF e.url # <<>> THEN e.url ELSE e.endpoint

----------------------------------------------------------------------------
(* distill-trace.js: resolveMethod                                         *)

\* String.prototype.toUpperCase on the method words that occur
toUpperCase(w) ==
    CASE w = "get" -> "GET"
      [] w = "post" -> "POST"
      [] w = "put" -> "PUT"
      [] w = "delete" -> "DELETE"
      [] w = "patch" -> "PATCH"
      [] w = "head" -> "HEAD"
      [] w = "options" -> "OPTIONS"
      [] OTHER -> w

HttpVerbs == {"GET", "POST", "PUT", "DELETE", "PATCH", "HEAD", "OPTIONS"}

\* new URL(url, base).searchParams.get(name): "" when the parameter is absent
SearchParam(url, name) ==
    LET qs == {i \in 1..Len(url) : url[i].k = "q" /\ url[i].s = name}
    IN  IF qs = {} THEN ""
        ELSE url[CHOOSE i \in qs : \A j \in qs : i <= j].v

HasSearchParam(url, name) ==
    \E i \in 1..Len(url) : url[i].k = "q" /\ url[i].s = name

\* url.replace(/\?.*/, '').split('/').filter(Boolean).length
RECURSIVE PathParts(_)
PathParts(url) ==
    IF url = <<>> \/ Head(url).k = "q" THEN 0
    ELSE (IF Head(url).k = "host" THEN 2 ELSE 1) + PathParts(Tail(url))

\* resolveMethod(method, url): the verb as a string; "" is a falsy result
resolveMethod(method, url) ==
    CASE method.form = "none" -> ""
      [] method.form = "verb" -> toUpperCase(method.text)
      [] method.form = "ternary" ->
            IF url # <<>> /\ HasSearchParam(url, method.p)
            THEN toUpperCase(IF SearchParam(url, method.p) = method.v
                             THEN method.t ELSE method.f)
            ELSE IF method.p = "new" /\ method.v = "true" /\ url # <<>>
                 THEN IF PathParts(url) > 2
                      THEN toUpperCase(method.f)
                      ELSE toUpperCase(method.t)
                 ELSE toUpperCase(method.t)
      [] method.form = "embedded" -> toUpperCase(method.text)
      [] OTHER -> method.text

----------------------------------------------------------------------------
(* distill-trace.js: distillJsonLogs                                       *)

\* Array.prototype.sort((a, b) => key(a) - key(b)) is stable: an element
\* goes after every element whose key is not greater
RECURSIVE SortByKey(_, _)
SortByKey(s, key) ==
    IF s = <<>> THEN <<>>
    ELSE LET init == SortByKey(SubSeq(s, 1, Len(s) - 1), key)
             x == s[Len(s)]
             n == Cardinality({i \in 1..Len(init) : key[init[i]] <= key[x]})
         IN  SubSeq(init, 1, n) \o <<x>> \o SubSeq(init, n + 1, Len(init))

\* log.interaction || log.eventName
InteractionName(e) == IF e.interaction # "" THEN e.interaction ELSE e.eventName

MODIFIER_KEYS == {"Control", "Meta", "Shift", "Alt"}
MAX_MODIFIER_HOLD_MS == 500

IsModifierEvent(e) ==
    /\ e.kind = "interaction"
    /\ InteractionName(e) \in {"keydown", "keyup"}
    /\ e.dKey \in MODIFIER_KEYS

\* the global modifier timeline: {perfTs, key, active}, sorted by perfTs
modifierTimeline(log) ==
    LET evs == SelectSeq(log, IsModifierEvent)
        entries == [i \in 1..Len(evs) |->
                       [perfTs |-> evs[i].perfTs, key |-> evs[i].dKey,
                        active |-> InteractionName(evs[i]) = "keydown"]]
    IN  SortByKey(entries, [x \in Range(entries) |-> x.perfTs])

\* the walk of getActiveModifiers over the timeline, up to the first entry
\* later than perfTs: the active set and the last keydown time of each key
\* (0 for a key without one, as lastKeydownTs.get(key) || 0 reads it)
RECURSIVE WalkTimeline(_, _, _, _)
WalkTimeline(timeline, perfTs, active, lastKeydownTs) ==
    IF timeline = <<>> \/ Head(timeline).perfTs > perfTs
    THEN [active |-> active, lastKeydownTs |-> lastKeydownTs]
    ELSE LET entry == Head(timeline)
         IN  IF entry.active
             THEN WalkTimeline(Tail(timeline), perfTs, active \cup {entry.key},
                               [lastKeydownTs EXCEPT ![entry.key] = entry.perfTs])
             ELSE WalkTimeline(Tail(timeline), perfTs, active \ {entry.key},
                               [lastKeydownTs EXCEPT ![entry.key] = 0])

\* a resolver without the recency cap
getActiveModifiers_uncapped(timeline, perfTs) ==
    WalkTimeline(timeline, perfTs, {}, [k \in MODIFIER_KEYS |-> 0]).active

\* getActiveModifiers(perfTs), over the timeline of the log
getActiveModifiers(timeline, perfTs) ==
    LET w == WalkTimeline(timeline, perfTs, {}, [k \in MODIFIER_KEYS |-> 0])
    IN  {k \in w.active : ~(perfTs - w.lastKeydownTs[k] > MAX_MODIFIER_HOLD_MS)}

\* log.traceId || 'unknown'
BucketId(e) == IF e.traceId # "" THEN e.traceId ELSE "unknown"

\* the trace groups, in the order in which their ids first occur in the log
RECURSIVE GroupByTraceId(_)
GroupByTraceId(log) ==
    IF log = <<>> THEN <<>>
    ELSE LET init == GroupByTraceId(SubSeq(log, 1, Len(log) - 1))
             e == log[Len(log)]
             at == {i \in 1..Len(init) : init[i].traceId = BucketId(e)}
         IN  IF at = {}
             THEN Append(init, [traceId |-> BucketId(e), events |-> <<e>>,
                                firstPerfTs |-> e.perfTs])
             ELSE [i \in 1..Len(init) |->
                     IF i \in at
                     THEN [init[i] EXCEPT !.events = Append(@, e)]
                     ELSE init[i]]

\* traceArray: the groups sorted by the perfTs of their first listed event
traceArray(log) ==
    LET groups == GroupByTraceId(log)
    IN  SortByKey(groups, [g \in Range(groups) |-> g.firstPerfTs])

NoTarget ==
    [component |-> "", label |-> "", testId |-> "", key |-> "",
     ariaRole |-> "", ariaName |-> "",
     ctrlKey |-> FALSE, shiftKey |-> FALSE, metaKey |-> FALSE, altKey |-> FALSE,
     hasFormData |-> FALSE, formData |-> ""]

\* a step; hasTarget is FALSE for a step without a target object, api is
\* await.api, navigateTo is await.navigate.to, snapshots is
\* _dataSourceSnapshots as the list of its entries
NoStep ==
    [action |-> "", hasTarget |-> FALSE, target |-> NoTarget, api |-> <<>>,
     navigateTo |-> <<>>, toasts |-> <<>>, modals |-> <<>>,
     snapshots |-> <<>>, dataSourceChanges |-> <<>>]

MutatingMethods == {"POST", "PUT", "DELETE", "PATCH"}

\* extractModals(events): one modal for each modal:show event, resolved by
\* the first confirm or cancel event of the list whose time is after the
\* time of the show and not after the time of the next show. Events of the
\* model carry no ts field, so e.perfTs || e.ts || 0 is e.perfTs, and 0 where
\* the next show has no time is Infinity.
extractModals(events) ==
    LET shows == SelectSeq(events, LAMBDA e : e.kind = "modal:show")
        resolutions(i) ==
            SelectSeq(events, LAMBDA e :
                /\ e.kind \in {"modal:confirm", "modal:cancel"}
                /\ e.perfTs > shows[i].perfTs
                /\ (i < Len(shows) /\ shows[i + 1].perfTs # 0)
                      => e.perfTs <= shows[i + 1].perfTs)
    IN  [i \in 1..Len(shows) |->
            [title |-> shows[i].title,
             action |-> IF resolutions(i) = <<>> THEN "unknown"
                        ELSE IF resolutions(i)[1].kind = "modal:confirm"
                        THEN "confirm" ELSE "cancel",
             buttonLabel |-> IF /\ resolutions(i) # <<>>
                                /\ resolutions(i)[1].kind = "modal:confirm"
                             THEN resolutions(i)[1].buttonLabel ELSE ""]]

\* d.path.startsWith('DataSource:'), on the paths that occur
IsDataSourcePath(path) == path \in {"DataSource:files", "DataSource:users"}

\* the entries of the diffJson arrays of the state:changes events, in order
RECURSIVE FlattenDiffs(_)
FlattenDiffs(events) ==
    IF events = <<>> THEN <<>>
    ELSE (IF Head(events).kind = "state:changes"
          THEN Head(events).diffJson ELSE <<>>) \o FlattenDiffs(Tail(events))

\* obj[path] = labels on a list of entries: the entry of a path is replaced
\* in its place, a new path is added at the end
PutSnapshot(snaps, path, labels) ==
    IF \E i \in 1..Len(snaps) : snaps[i].path = path
    THEN [i \in 1..Len(snaps) |->
            IF snaps[i].path = path THEN [path |-> path, labels |-> labels]
            ELSE snaps[i]]
    ELSE Append(snaps, [path |-> path, labels |-> labels])

RECURSIVE PutSnapshots(_, _)
PutSnapshots(snaps, entries) ==
    IF entries = <<>> THEN snaps
    ELSE PutSnapshots(PutSnapshot(snaps, Head(entries).path, Head(entries).labels),
                      Tail(entries))

\* step._dataSourceSnapshots: for each DataSource path whose after value is
\* an array, the labels of the last such value; after holds the itemLabel of
\* each item, "" for an item without label
SnapshotsOf(events) ==
    LET dsArrayChanges ==
            SelectSeq(FlattenDiffs(events), LAMBDA d :
                d.path # "" /\ IsDataSourcePath(d.path) /\ d.isArray)
    IN  PutSnapshots(<<>>,
            [i \in 1..Len(dsArrayChanges) |->
                [path |-> dsArrayChanges[i].path,
                 labels |-> SelectSeq(dsArrayChanges[i].after,
                                      LAMBDA l : l # "")]])

ApiAwait(e) ==
    [method |-> resolveMethod(e.method, UrlOrEndpoint(e)),
     endpoint |-> UrlOrEndpoint(e), status |-> e.status]

ToastOf(e) ==
    [type |-> IF e.toastType # "" THEN e.toastType ELSE "default",
     message |-> e.message]

IsInspectorInteraction(e) ==
    \/ e.componentLabel = "XMLUI Inspector"
    \/ e.componentType = "XSInspector"
    \/ e.dText = "XMLUI Inspector"

GenericComponentNames == {"HStack", "VStack", "Tree", "Stack", "Box", "Link", "Text",
                          "DataGrid", "NavLink"}
HtmlTagNames == {"svg", "path", "input", "textarea", "div", "span", "button", "a",
                 "img", "label", "select", "option", "ul", "li", "ol", "tr", "td",
                 "th", "table", "form", "section", "header", "footer", "nav",
                 "main", "aside", "article"}

\* the target of an interaction step; every handler:start event of the model
\* carries eventArgs, so the first one is handlerStart and, when it is a
\* submit, its eventArgs[0] is the formData object
TargetOf(events, interaction) ==
    LET submits == SelectSeq(events, LAMBDA e : e.kind = "handler:start")
        fromText == IF interaction.dText # "" /\ Len(interaction.dText) < 50
                    THEN interaction.dText ELSE ""
        label == IF fromText # "" THEN fromText
                 ELSE IF /\ interaction.componentLabel # ""
                         /\ interaction.componentLabel \notin GenericComponentNames
                         /\ interaction.componentLabel \notin HtmlTagNames
                      THEN interaction.componentLabel
                      ELSE ""
    IN  [component |-> IF interaction.componentType # ""
                       THEN interaction.componentType
                       ELSE interaction.componentLabel,
         label |-> label,
         testId |-> interaction.uid,
         ariaRole |-> interaction.dAriaRole,
         ariaName |-> interaction.dAriaName,
         key |-> IF InteractionName(interaction) = "keydown"
                 THEN interaction.dKey ELSE "",
         ctrlKey |-> interaction.ctrlKey,
         shiftKey |-> interaction.shiftKey,
         metaKey |-> interaction.metaKey,
         altKey |-> interaction.altKey,
         hasFormData |-> submits # <<>> /\ submits[1].eventName = "submit",
         formData |-> IF submits # <<>> /\ submits[1].eventName = "submit"
                      THEN submits[1].argName ELSE ""]

\* a startup test that does not look for an interaction
IsStartupTrace_anyEvents(trace, interactions) == IsStartupId(trace.traceId)

\* !interaction && trace.traceId?.startsWith('startup-')
IsStartupTrace(trace, interactions) ==
    interactions = <<>> /\ IsStartupId(trace.traceId)

\* extractStepFromJsonLogs(trace): the step of a trace group as a sequence of
\* one step, or the empty sequence where the code returns null
extractStepFromJsonLogs(trace) ==
    LET events == trace.events
        interactions == SelectSeq(events, LAMBDA e : e.kind = "interaction")
        completes == SelectSeq(events, LAMBDA e :
                         e.kind = "api:complete" /\ e.method.form # "none")
        calls == SelectSeq(events, LAMBDA e :
                     /\ e.kind \in {"api:complete", "api:start"}
                     /\ e.method.form # "none")
        navs == SelectSeq(events, LAMBDA e : e.kind = "navigate")
        toastEvents == SelectSeq(events, LAMBDA e : e.kind = "toast")
        toasts == [i \in 1..Len(toastEvents) |-> ToastOf(toastEvents[i])]
    IN
    IF IsStartupTrace(trace, interactions)
    THEN <<[NoStep EXCEPT !.action = "startup",
                          !.api = [i \in 1..Len(completes) |->
                                      [method |-> ApiAwait(completes[i]).method,
                                       endpoint |-> UrlOrEndpoint(completes[i]),
                                       status |-> 0]]]>>
    ELSE IF interactions = <<>>
    THEN IF toastEvents # <<>>
         THEN <<[NoStep EXCEPT !.action = "toast", !.toasts = toasts]>>
         ELSE <<>>
    ELSE IF IsInspectorInteraction(interactions[1]) THEN <<>>
    ELSE <<[action |-> InteractionName(interactions[1]),
            hasTarget |-> TRUE,
            target |-> TargetOf(events, interactions[1]),
            api |-> [i \in 1..Len(calls) |-> ApiAwait(calls[i])],
            navigateTo |-> IF navs = <<>> THEN <<>> ELSE navs[1].to,
            toasts |-> toasts,
            modals |-> extractModals(events),
            snapshots |-> SnapshotsOf(events),
            dataSourceChanges |-> <<>>]>>

\* a modifier pass that does not look at the flags the step already carries
WithInferredModifiers_always(step, timeline, firstPerfTs) ==
    IF step.action \in {"click", "dblclick"}
    THEN LET mods == getActiveModifiers(timeline, firstPerfTs)
         IN  [step EXCEPT !.target.ctrlKey = @ \/ "Control" \in mods,
                          !.target.metaKey = @ \/ "Meta" \in mods,
                          !.target.shiftKey = @ \/ "Shift" \in mods,
                          !.target.altKey = @ \/ "Alt" \in mods]
    ELSE step

\* the modifier pass on one step of a trace group
WithInferredModifiers(step, timeline, firstPerfTs) ==
    IF /\ step.action \in {"click", "dblclick"}
       /\ ~step.target.ctrlKey /\ ~step.target.metaKey
       /\ ~step.target.shiftKey /\ ~step.target.altKey
    THEN LET mods == getActiveModifiers(timeline, firstPerfTs)
         IN  IF mods = {} THEN step
             ELSE [step EXCEPT !.hasTarget = TRUE,
                               !.target.ctrlKey = @ \/ "Control" \in mods,
                               !.target.metaKey = @ \/ "Meta" \in mods,
                               !.target.shiftKey = @ \/ "Shift" \in mods,
                               !.target.altKey = @ \/ "Alt" \in mods]
    ELSE step

\* the steps pushed by the loop over traceArray
RECURSIVE StepsOfTraces(_, _)
StepsOfTraces(traces, timeline) ==
    IF traces = <<>> THEN <<>>
    ELSE LET step == extractStepFromJsonLogs(Head(traces))
         IN  (IF step = <<>> THEN <<>>
              ELSE <<WithInferredModifiers(step[1], timeline, Head(traces).firstPerfTs)>>)
             \o StepsOfTraces(Tail(traces), timeline)

\* step.target?.testId, "" for undefined
TestIdOf(step) == IF step.hasTarget THEN step.target.testId ELSE ""

\* a pattern test that stops one step short of the end of the list
IsClickClickDblclick_short(ss, i) ==
    /\ i + 2 < Len(ss)
    /\ ss[i].action = "click"
    /\ ss[i + 1].action = "click"
    /\ ss[i + 2].action = "dblclick"
    /\ TestIdOf(ss[i]) = TestIdOf(ss[i + 1])
    /\ TestIdOf(ss[i]) = TestIdOf(ss[i + 2])

\* the click + click + dblclick pattern at position i of the step list
IsClickClickDblclick(ss, i) ==
    /\ i + 2 <= Len(ss)
    /\ ss[i].action = "click"
    /\ ss[i + 1].action = "click"
    /\ ss[i + 2].action = "dblclick"
    /\ TestIdOf(ss[i]) = TestIdOf(ss[i + 1])
    /\ TestIdOf(ss[i]) = TestIdOf(ss[i + 2])

\* the dedupe loop from index i on
RECURSIVE DedupeFrom(_, _)
DedupeFrom(ss, i) ==
    IF i > Len(ss) THEN <<>>
    ELSE IF IsClickClickDblclick(ss, i)
         THEN <<ss[i + 2]>> \o DedupeFrom(ss, i + 3)
         ELSE <<ss[i]>> \o DedupeFrom(ss, i + 1)

\* a mutation test that holds for every step
stepHasMutation_always(step) == TRUE

\* step.await?.api?.some(a => [POST, PUT, DELETE, PATCH].includes(a.method))
stepHasMutation(step) ==
    \E i \in 1..Len(step.api) : step.api[i].method \in MutatingMethods

\* the entries pushed to step.dataSourceChanges for the snapshots of the
\* step, given prevSnapshots
RECURSIVE ChangesOf(_, _, _)
ChangesOf(step, snaps, prev) ==
    IF snaps = <<>> THEN <<>>
    ELSE
    LET labels == Head(snaps).labels
        at == {i \in 1..Len(prev) : prev[i].path = Head(snaps).path}
        before == prev[CHOOSE i \in at : TRUE].labels
        added == SelectSeq(labels, LAMBDA l : l \notin Range(before))
        removed == SelectSeq(before, LAMBDA l : l \notin Range(labels))
    IN  (IF at # {} /\ stepHasMutation(step) /\ (added # <<>> \/ removed # <<>>)
         THEN <<[source |-> Head(snaps).path, added |-> added,
                 removed |-> removed]>>
         ELSE <<>>)
        \o ChangesOf(step, Tail(snaps), PutSnapshot(prev, Head(snaps).path, labels))

\* the pass over the steps that diffs consecutive snapshots, from step i on
RECURSIVE DiffSnapshotsFrom(_, _, _)
DiffSnapshotsFrom(ss, i, prev) ==
    IF i > Len(ss) THEN <<>>
    ELSE <<[ss[i] EXCEPT !.dataSourceChanges = ChangesOf(ss[i], ss[i].snapshots, prev),
                         !.snapshots = <<>>]>>
         \o DiffSnapshotsFrom(ss, i + 1, PutSnapshots(prev, ss[i].snapshots))

\* distillJsonLogs(logs).steps
distillJsonLogs(log) ==
    DedupeFrom(
        DiffSnapshotsFrom(StepsOfTraces(traceArray(log), modifierTimeline(log)),
                          1, <<>>), 1)

\* A call of distillJsonLogs seen with its local state. The arrays and maps
\* of a call (modifierTimeline, traces, steps, deduped) are created by the
\* call; kept is what the previous call left in modifierTimeline.

\* a timeline that goes on from the one the previous call left
NewModifierTimeline_kept(kept) == kept

\* const modifierTimeline = []
NewModifierTimeline(kept) == <<>>

\* the timeline of a call: the entries of the log pushed onto the new array,
\* then sorted
modifierTimelineOnto(start, log) ==
    LET evs == SelectSeq(log, IsModifierEvent)
        entries == start \o [i \in 1..Len(evs) |->
                       [perfTs |-> evs[i].perfTs, key |-> evs[i].dKey,
                        active |-> InteractionName(evs[i]) = "keydown"]]
    IN  SortByKey(entries, [x \in Range(entries) |-> x.perfTs])

\* the steps a call returns, given the timeline array it works on
distillJsonLogsCall(timeline, log) ==
    DedupeFrom(DiffSnapshotsFrom(StepsOfTraces(traceArray(log), timeline), 1, <<>>), 1)

----------------------------------------------------------------------------
(* parse-trace.js: parseTrace; distill-trace.js: distillTrace              *)

\* The lines of a text export, by the pattern of parseTrace they match:
\* "--- Trace N: summary (Nms) ---", "  traceId: id", "  [kind] rest" (given
\* as the event parseTrace builds from it), or none of them.
HeaderLine(summary) ==
    [type |-> "header", summary |-> summary, traceId |-> "", event |-> NoEvent]
TraceIdLine(id) ==
    [type |-> "traceId", summary |-> "", traceId |-> id, event |-> NoEvent]
EventLine(e) ==
    [type |-> "event", summary |-> "", traceId |-> "", event |-> e]
OtherLine ==
    [type |-> "other", summary |-> "", traceId |-> "", event |-> NoEvent]

\* an event of a text export: [interaction] action "target" (perfTs n)
TextInteraction(act, tgt, ts) ==
    [NoEvent EXCEPT !.kind = "interaction", !.action = act, !.target = tgt,
                    !.perfTs = ts]

\* [api:complete] [status] VERB endpoint, with (perfTs n)
TextApi(verb, ep, ts) ==
    [NoEvent EXCEPT !.kind = "api:complete", !.method = Verb(verb),
                    !.endpoint = ep, !.status = 200, !.perfTs = ts]

\* parseTrace(traceText): the traces, the last one being currentTrace when
\* open is TRUE
RECURSIVE ParseLines(_)
ParseLines(lines) ==
    IF lines = <<>> THEN <<>>
    ELSE LET traces == ParseLines(SubSeq(lines, 1, Len(lines) - 1))
             line == lines[Len(lines)]
             n == Len(traces)
         IN  CASE line.type = "header" ->
                    Append(traces, [summary |-> line.summary, traceId |-> "",
                                    events |-> <<>>])
               [] line.type = "traceId" /\ n > 0 ->
                    [traces EXCEPT ![n].traceId = line.traceId]
               [] line.type = "event" /\ n > 0 ->
                    [traces EXCEPT ![n].events = Append(@, line.event)]
               [] OTHER -> traces

parseTrace(traceText) == ParseLines(traceText)

\* trace.summary.includes('Startup'), on the summaries that occur
IncludesStartup(summary) == summary \in {"Startup", "Startup (3 APIs)"}

\* extractStartupStep(trace)
extractStartupStep(trace) ==
    LET apis == SelectSeq(trace.events, LAMBDA e :
                    /\ e.kind = "api:complete"
                    /\ e.method.form # "none" /\ e.endpoint # <<>>)
        apiCalls == [i \in 1..Len(apis) |->
                       [method |-> resolveMethod(apis[i].method, apis[i].endpoint),
                        endpoint |-> apis[i].endpoint, status |-> 0]]
    IN  [NoStep EXCEPT !.action = "startup", !.api = DedupeSeq(apiCalls)]

\* inferTarget(trace, interaction), for traces whose handler events carry no
\* args and whose state changes name no selection
inferTarget(trace, interaction) ==
    [NoTarget EXCEPT
        !.component = interaction.target,
        !.label = IF /\ interaction.target # ""
                     /\ interaction.target \notin GenericComponentNames
                  THEN interaction.target ELSE ""]

\* extractAwaitConditions(trace).api
extractAwaitConditions(trace) ==
    LET apis == SelectSeq(trace.events, LAMBDA e :
                    /\ e.kind \in {"api:complete", "api:start"}
                    /\ e.method.form # "none")
    IN  [i \in 1..Len(apis) |->
            [method |-> apis[i].method.text, endpoint |-> apis[i].endpoint,
             status |-> apis[i].status]]

\* extractStep(trace): a sequence of one step, or of none for null
extractStep(trace) ==
    LET interactions == SelectSeq(trace.events, LAMBDA e : e.kind = "interaction")
        navs == SelectSeq(trace.events, LAMBDA e : e.kind = "navigate")
    IN  IF interactions = <<>> /\ ~IncludesStartup(trace.summary) THEN <<>>
        ELSE IF IncludesStartup(trace.summary) THEN <<extractStartupStep(trace)>>
        ELSE <<[NoStep EXCEPT
                   !.action = interactions[1].action,
                   !.hasTarget = TRUE,
                   !.target = inferTarget(trace, interactions[1]),
                   !.api = extractAwaitConditions(trace),
                   !.navigateTo = IF navs = <<>> THEN <<>> ELSE navs[1].to,
                   !.modals = extractModals(trace.events)]>>

RECURSIVE StepsOfTextTraces(_)
StepsOfTextTraces(traces) ==
    IF traces = <<>> THEN <<>>
    ELSE extractStep(Head(traces)) \o StepsOfTextTraces(Tail(traces))

\* distillTrace(traces).steps: the traces sorted by events[0]?.perfTs || 0
distillTrace(traces) ==
    StepsOfTextTraces(
        SortByKey(traces, [t \in Range(traces) |->
                             IF t.events = <<>> THEN 0 ELSE t.events[1].perfTs]))

----------------------------------------------------------------------------
(* Entry points: the distill-trace.js command line, normalizeInput         *)

\* What an entry point is given. form is "text" (a string, given by its
\* lines), "jsonArrayText" (the text of a JSON array of events, given by
\* the events), "jsonObjectText" (the text of a JSON object),
\* "brokenJsonText" (a string that starts with [ and is not JSON), "array" (a
\* JS array of events), "journey" (an object with steps) or "number" (a
\* value that is none of these).
Journey(ss) == [kind |-> "journey", steps |-> ss, message |-> ""]
Thrown(msg) == [kind |-> "error", steps |-> <<>>, message |-> msg]

\* input.trim().startsWith('['): of the lines parseTrace knows, only an event
\* line, "  [kind] rest", starts with [ once trimmed
StartsWithBracket(lines) == lines # <<>> /\ lines[1].type = "event"

\* the command line of distill-trace.js on a file with this content
distillCli(inp) ==
    CASE inp.form = "jsonArrayText" -> Journey(distillJsonLogs(inp.logs))
      [] inp.form = "jsonObjectText" -> Thrown("TypeError: logs is not iterable")
      [] inp.form = "brokenJsonText" -> Thrown("SyntaxError")
      [] OTHER ->
           IF StartsWithBracket(inp.lines) THEN Thrown("SyntaxError")
           ELSE Journey(distillTrace(parseTrace(inp.lines)))

\* normalizeInput(input); normalizeTrace and normalizeJsonLogs are the
\* former names of distillTrace and distillJsonLogs. A string that is JSON
\* text, whole or broken, has no line that parseTrace matches.
normalizeInput(inp) ==
    CASE inp.form = "journey" -> Journey(inp.logs)
      [] inp.form \in {"jsonArrayText", "array"} ->
           Journey(distillJsonLogs(inp.logs))
      [] inp.form \in {"brokenJsonText", "jsonObjectText"} ->
           Journey(distillTrace(parseTrace(<<>>)))
      [] inp.form = "text" -> Journey(distillTrace(parseTrace(inp.lines)))
      [] OTHER -> Thrown("Unknown trace format")

----------------------------------------------------------------------------
(* compare-traces.js: extractSemantics, compareSemanticTraces              *)

\* An argument of the comparator: a JS array of events ("array"), the text of
\* a JSON array ("jsonText", the CLI's case), a distilled journey object
\* {steps} ("journey"), or a grouped-text export ("text").
TraceArg(type, logs) == [type |-> type, logs |-> logs]

\* `${method} ${endpoint}` of one api:complete event
ApiSignature(e) ==
    <<Word(resolveMethod(e.method, UrlOrEndpoint(e)))>>
        \o StripApiPrefix(BeforeQuery(e.url))

IsComparedApi(e) ==
    /\ e.kind = "api:complete"
    /\ e.method.form # "none"
    /\ ~(e.traceId # "" /\ IsStartupId(e.traceId))

IsSubmit(e) == e.kind = "handler:start" /\ e.eventName = "submit"

IsContextMenuEvent(e) == e.kind = "interaction" /\ e.action = "contextmenu"

\* e.detail?.label || e.detail?.testId
ContextMenuLabel(e) == IF e.dLabel # "" THEN e.dLabel ELSE e.dTestId

NoSemantics ==
    [isNull |-> TRUE, apis |-> {}, apiCount |-> 0, formSubmits |-> <<>>,
     navigations |-> <<>>, contextMenus |-> <<>>]

\* extractSemantics(input): NoSemantics is the null the code returns for any
\* input that is not an array or the text of a JSON array.  apis is the sorted
\* array of unique signatures, kept as the set of its elements.
extractSemantics(input) ==
    IF input.type \notin {"array", "jsonText"} THEN NoSemantics
    ELSE
      LET logs == input.logs
          apis == SelectSeq(logs, IsComparedApi)
          submits == SelectSeq(logs, IsSubmit)
          navs == SelectSeq(logs, LAMBDA e : e.kind = "navigate")
          ctxs == SelectSeq(logs, IsContextMenuEvent)
          names == [i \in 1..Len(submits) |-> submits[i].argName]
          tos == [i \in 1..Len(navs) |-> BeforeQuery(navs[i].to)]
          labels == [i \in 1..Len(ctxs) |-> ContextMenuLabel(ctxs[i])]
      IN  [isNull |-> FALSE,
           apis |-> {ApiSignature(apis[i]) : i \in 1..Len(apis)},
           apiCount |-> Len(apis),
           formSubmits |-> SelectSeq(names, LAMBDA n : n # ""),
           navigations |-> DedupeSeq(SelectSeq(tos, LAMBDA t : t # <<>>)),
           contextMenus |-> SelectSeq(labels, LAMBDA l : l # "")]

\* One entry of report.differences.  Every entry has all the fields; those
\* its type does not use are empty.
Difference(type) ==
    [type |-> type, apis |-> {}, beforeCount |-> 0, afterCount |-> 0,
     before |-> <<>>, after |-> <<>>, missing |-> <<>>, extra |-> <<>>]

\* a filter that drops an api only when a pattern equals its whole signature
apiFilter_exact(api, ignore) ==
    ~\E i \in 1..Len(ignore) : api = ignore[i]

\* api => !ignoreApis.some(pattern => api.includes(pattern))
apiFilter(api, ignore) ==
    ~\E i \in 1..Len(ignore) : Includes(api, ignore[i])

\* a positional comparison that reads the second list one place too far
submitDiff_shifted(f1, f2) ==
    {i \in 1..Len(f1) : i + 1 > Len(f2) \/ f1[i] # f2[i + 1]}

\* sem1.formSubmits.filter((s, i) => s !== sem2.formSubmits[i]), as the
\* positions kept
submitDiff(f1, f2) ==
    {i \in 1..Len(f1) : i > Len(f2) \/ f1[i] # f2[i]}

\* a comparison that never finds an api of the second trace to be extra
extraApis_none(sem1, sem2) == {}

\* sem2.apis.filter(a => !sem1.apis.includes(a))
extraApis(sem1, sem2) == sem2.apis \ sem1.apis

ErrorReport ==
    [error |-> "Semantic comparison requires JSON trace format",
     match |-> FALSE, differences |-> <<>>, ignoredApis |-> <<>>,
     before |-> NoSemantics, after |-> NoSemantics]

\* compareSemanticTraces(trace1, trace2, {ignoreApis}).  The error report has
\* no match field in the code; here its error field is non-empty and its
\* match field is to be read only when error = "".
compareSemanticTraces(t1, t2, ignore) ==
    LET raw1 == extractSemantics(t1)
        raw2 == extractSemantics(t2)
    IN
    IF raw1.isNull \/ raw2.isNull THEN ErrorReport
    ELSE
      LET sem1 == [raw1 EXCEPT !.apis = {a \in raw1.apis : apiFilter(a, ignore)}]
          sem2 == [raw2 EXCEPT !.apis = {a \in raw2.apis : apiFilter(a, ignore)}]
          missingApis == sem1.apis \ sem2.apis
          n1 == Len(sem1.formSubmits)
          n2 == Len(sem2.formSubmits)
          missingCtx == SelectSeq(sem1.contextMenus,
                                  LAMBDA c : c \notin Range(sem2.contextMenus))
          extraCtx == SelectSeq(sem2.contextMenus,
                                LAMBDA c : c \notin Range(sem1.contextMenus))
          d1 == IF missingApis # {}
                THEN <<[Difference("apis_missing") EXCEPT !.apis = missingApis]>>
                ELSE <<>>
          d2 == IF extraApis(sem1, sem2) # {}
                THEN <<[Difference("apis_extra") EXCEPT
                            !.apis = extraApis(sem1, sem2)]>>
                ELSE <<>>
          d3 == IF n1 # n2
                THEN <<[Difference("form_submit_count") EXCEPT
                            !.beforeCount = n1, !.afterCount = n2]>>
                ELSE <<>>
          d4 == IF submitDiff(sem1.formSubmits, sem2.formSubmits) # {}
                THEN <<[Difference("form_submit_values") EXCEPT
                            !.before = sem1.formSubmits,
                            !.after = sem2.formSubmits]>>
                ELSE <<>>
          d5 == IF missingCtx # <<>> \/ extraCtx # <<>>
                THEN <<[Difference("context_menu_targets") EXCEPT
                            !.missing = missingCtx, !.extra = extraCtx]>>
                ELSE <<>>
          differences == d1 \o d2 \o d3 \o d4 \o d5
      IN  [error |-> "",
           match |-> differences = <<>>,
           differences |-> differences,
           ignoredApis |-> ignore,
           before |-> sem1,
           after |-> sem2]

\* formatSemanticReport(report): the printed lines.  A line that lists names
\* is kept as its heading only.
formatSemanticReport(r) ==
    IF r.error # "" THEN <<"Error: Semantic comparison requires JSON trace format">>
    ELSE (IF Len(r.ignoredApis) > 0 THEN <<"(ignoring APIs)">> ELSE <<>>)
         \o (IF r.match THEN <<"Traces match semantically">>
             ELSE <<"Traces differ semantically", "Differences:">>
                  \o [i \in 1..Len(r.differences) |-> r.differences[i].type])
         \o <<"Before:", "After:">>

----------------------------------------------------------------------------
(* test-base.sh: the run command                                           *)

\* echo "$SEMANTIC_OUTPUT" | grep -qE "Traces match semantically|SEMANTIC_MATCH"
GrepsSemanticMatch(output) ==
    \E i \in 1..Len(output) :
        output[i] \in {"Traces match semantically", "SEMANTIC_MATCH"}

\* the exit code of `run` once the script has run and the traces, if a trace
\* was captured, have been compared
RunExitCode(exit, output) ==
    IF exit # 0 /\ GrepsSemanticMatch(output) THEN 0 ELSE exit

----------------------------------------------------------------------------
(* generate-playwright.js: reorderFormSteps                                *)

\* a submit test that takes every click for a submission
isSubmit_anyClick(s) == s.action = "click"

\* isSubmit(s): a click whose target carries a formData object
isSubmit(s) == s.action = "click" /\ s.hasTarget /\ s.target.hasFormData

\* a keydown on a textbox
IsTextboxKeydown(s) ==
    s.action = "keydown" /\ s.hasTarget /\ s.target.ariaRole = "textbox"

\* isSameKeydown: a keydown on the textbox named ariaName ("" is undefined,
\* and undefined === undefined)
IsSameKeydown(s, ariaName) ==
    IsTextboxKeydown(s) /\ s.target.ariaName = ariaName

\* an interleaving test that asks only for a step that is not a same keydown
hasInterleaving_anyOther(ss, fillStart, submitIdx, ariaName) ==
    \E j \in (fillStart + 1)..(submitIdx - 1) : ~IsSameKeydown(ss[j], ariaName)

\* hasInterleaving(steps, fillStart, submitIdx, ariaName): between the two
\* there is a step that is not a same keydown and, after it, a same keydown
hasInterleaving(ss, fillStart, submitIdx, ariaName) ==
    \E j \in (fillStart + 1)..(submitIdx - 1) :
        /\ ~IsSameKeydown(ss[j], ariaName)
        /\ \E k \in (j + 1)..(submitIdx - 1) : IsSameKeydown(ss[k], ariaName)

\* the while loop of reorderFormSteps from index i on (indices from 1)
RECURSIVE ReorderFrom(_, _)
ReorderFrom(result, i) ==
    IF i > Len(result) THEN result
    ELSE IF ~IsTextboxKeydown(result[i]) THEN ReorderFrom(result, i + 1)
    ELSE
      LET formAriaName == result[i].target.ariaName
          submits == {j \in (i + 1)..Len(result) : isSubmit(result[j])}
      IN  IF submits = {} THEN ReorderFrom(result, i + 1)
          ELSE
            LET submitIdx == CHOOSE j \in submits : \A k \in submits : j <= k
            IN  IF ~hasInterleaving(result, i, submitIdx, formAriaName)
                THEN ReorderFrom(result, i + 1)
                ELSE
                  LET between == SubSeq(result, i + 1, submitIdx - 1)
                      kept == SelectSeq(between,
                                 LAMBDA s : IsSameKeydown(s, formAriaName))
                      deferred == SelectSeq(between,
                                 LAMBDA s : ~IsSameKeydown(s, formAriaName))
                  IN  ReorderFrom(SubSeq(result, 1, i) \o kept
                                    \o <<result[submitIdx]>> \o deferred
                                    \o SubSeq(result, submitIdx + 1, Len(result)),
                                  i + Len(kept) + 2)

\* reorderFormSteps(steps)
reorderFormSteps(ss) == ReorderFrom(ss, 1)

----------------------------------------------------------------------------
(* generate-playwright.js: generatePlaywright                              *)

\* a line of the generated script: what it does (kind), the locator it uses
\* (role, name), the call it makes on it (method; value for a fill), the
\* request it waits for (method, path) and the response promises it declares
\* or awaits (vars)
NoLine ==
    [kind |-> "", role |-> "", name |-> "", method |-> "", value |-> "",
     path |-> <<>>, vars |-> <<>>]

\* str.replace(/^\//, ''): a leading "/s" becomes the bare "s"
StripLeadingSlash(str) ==
    IF str # <<>> /\ str[1].k = "seg"
    THEN <<[str[1] EXCEPT !.k = "bare"]>> \o Tail(str)
    ELSE str

\* extractEndpointPath(endpoint); an api without endpoint is handed over
\* itself and gives ''
extractEndpointPath(endpoint) == StripLeadingSlash(BeforeQuery(endpoint))

\* decodeURIComponent raises a URIError on a "%" that starts no escape
MalformedValues == {"100%"}

\* the string entries of a formData object: the model knows an object by the
\* value of its name field
StringFields(formData) ==
    IF formData = "" THEN <<>>
    ELSE <<[fieldName |-> "name", value |-> formData]>>

\* ariaName.toLowerCase().replace(/[:\s*]+/g, ''), on the labels that occur
NormalizedAria(ariaName) ==
    CASE ariaName = "Name" -> "name"
      [] ariaName = "Notes" -> "notes"
      [] ariaName = "User Name:" -> "username"
      [] OTHER -> ariaName

\* normalizedAria.includes(normalizedField) and normalizedField.length, on
\* the words that occur
AriaIncludes(normalizedAria, normalizedField) ==
    \/ normalizedAria = normalizedField
    \/ <<normalizedAria, normalizedField>> \in {<<"username", "name">>}

FieldLength(fieldName) == IF fieldName = "name" THEN 4 ELSE 0

\* fieldMatchScore(fieldName, ariaName): 100 for the same word, 50 and the
\* length of the field name where the label contains it. The field names of
\* the model are one lower-case word, so the camelCase parts are the name
\* itself and the last case scores 0.
fieldMatchScore(fieldName, ariaName) ==
    IF NormalizedAria(ariaName) = fieldName THEN 100
    ELSE IF AriaIncludes(NormalizedAria(ariaName), fieldName)
    THEN 50 + FieldLength(fieldName)
    ELSE 0

\* the indexes of the submit steps of buildFillPlan: clicks with a formData
\* object
SubmitIndexes(ss) ==
    {i \in 1..Len(ss) : ss[i].action = "click" /\ ss[i].target.hasFormData}

\* the best-scoring string field, the first one on a tie, or none
BestMatch(fields, ariaName) ==
    LET scored == {i \in 1..Len(fields) :
                     /\ fieldMatchScore(fields[i].fieldName, ariaName) > 0
                     /\ \A j \in 1..Len(fields) :
                          \/ fieldMatchScore(fields[j].fieldName, ariaName)
                               < fieldMatchScore(fields[i].fieldName, ariaName)
                          \/ /\ fieldMatchScore(fields[j].fieldName, ariaName)
                                  = fieldMatchScore(fields[i].fieldName, ariaName)
                             /\ i <= j}
    IN  IF scored = {} THEN <<>> ELSE <<fields[CHOOSE i \in scored : TRUE]>>

\* the loop of buildFillPlan from step i on; queues maps an ariaName to the
\* fills planned for it
RECURSIVE FillQueuesFrom(_, _, _)
FillQueuesFrom(ss, i, queues) ==
    IF i > Len(ss) THEN queues
    ELSE
    LET step == ss[i]
        ariaName == step.target.ariaName
        later == {s \in SubmitIndexes(ss) : s > i}
        nextSubmit == CHOOSE s \in later : \A t \in later : s <= t
        queue == queues[ariaName]
        best == BestMatch(StringFields(ss[nextSubmit].target.formData), ariaName)
    IN  IF /\ step.action \in {"click", "keydown"}
           /\ step.target.ariaRole = "textbox"
           /\ ariaName # ""
           /\ later # {}
           /\ ~(queue # <<>> /\ queue[Len(queue)].submitIndex = nextSubmit)
           /\ best # <<>>
        THEN FillQueuesFrom(ss, i + 1,
                 [queues EXCEPT ![ariaName] =
                     Append(@, [fieldName |-> best[1].fieldName,
                                value |-> best[1].value,
                                submitIndex |-> nextSubmit])])
        ELSE FillQueuesFrom(ss, i + 1, queues)

\* buildFillPlan(steps): the fill queues, and the fields filled in the
\* current form (_filledInCurrentForm, empty until a fill is emitted)
buildFillPlan(ss) ==
    [queues |-> IF SubmitIndexes(ss) = {}
                THEN [n \in {ss[i].target.ariaName : i \in 1..Len(ss)} |-> <<>>]
                ELSE FillQueuesFrom(ss, 1,
                         [n \in {ss[i].target.ariaName : i \in 1..Len(ss)} |-> <<>>]),
     filled |-> {}]

\* fillPlan.fills.has(ariaName)
HasFill(plan, ariaName) ==
    ariaName \in DOMAIN plan.queues /\ plan.queues[ariaName] # <<>>

\* the plan after fills.get, fills.consume and _filledInCurrentForm.add
ConsumeFill(plan, ariaName) ==
    [queues |-> [plan.queues EXCEPT ![ariaName] = Tail(@)],
     filled |-> plan.filled \cup {ariaName}]

FillLine(plan, ariaName) ==
    [NoLine EXCEPT !.kind = "fill", !.role = "textbox", !.name = ariaName,
                   !.method = "fill",
                   !.value = plan.queues[ariaName][1].value]

\* generateClickCode(step, indent, method, fillPlan): the lines and the fill
\* plan it leaves. Interactions of the model carry no detail.targetTag, so
\* the toggle-arrow branch of tree items is never taken.
generateClickCode(step, method, plan) ==
    LET ariaRole == step.target.ariaRole
        ariaName == step.target.ariaName
        label == step.target.label
        cleared == IF step.target.hasFormData
                   THEN [plan EXCEPT !.filled = {}] ELSE plan
        act(kind, role, name) ==
            [NoLine EXCEPT !.kind = kind, !.role = role, !.name = name,
                           !.method = method]
    IN
    IF ariaRole = "textbox" /\ ariaName # "" /\ HasFill(plan, ariaName)
    THEN [lines |-> <<FillLine(plan, ariaName)>>,
          plan |-> ConsumeFill(plan, ariaName)]
    ELSE IF ariaRole = "checkbox" /\ ariaName # ""
    THEN \* hover the row, or wait and scroll, then click
         [lines |-> <<act("prepare", ariaRole, ariaName),
                      act("action", ariaRole, ariaName)>>,
          plan |-> cleared]
    ELSE IF ariaRole = "button" /\ ariaName # ""
    THEN \* scroll the ancestor to the top, then click
         [lines |-> <<act("prepare", ariaRole, ariaName),
                      act("action", ariaRole, ariaName)>>,
          plan |-> cleared]
    ELSE IF ariaRole # "" /\ ariaName # ""
    THEN [lines |-> <<act("action", ariaRole, ariaName)>>, plan |-> cleared]
    ELSE IF ariaRole # ""
    THEN [lines |-> <<act("gap", ariaRole, ""), act("action", ariaRole, "")>>,
          plan |-> cleared]
    ELSE IF label # ""
    THEN [lines |-> <<act("action", "text", label)>>, plan |-> cleared]
    ELSE [lines |-> <<act("gap", "", "")>>, plan |-> cleared]

\* the name of a response promise: responsePromise<counter>_<k>
PromiseVar(counter, k) == <<"responsePromise", counter, k>>
TreeCtxNav == <<"_treeCtxNav", 0, 0>>

\* generateContextMenuCode(step, indent)
generateContextMenuCode(step) ==
    LET ariaRole == step.target.ariaRole
        ariaName == step.target.ariaName
        label == step.target.label
        act(kind, role, name) ==
            [NoLine EXCEPT !.kind = kind, !.role = role, !.name = name,
                           !.method = "contextmenu"]
    IN
    IF ariaRole # "" /\ ariaName # ""
    THEN IF ariaRole = "treeitem"
         THEN <<[NoLine EXCEPT !.kind = "responsePromise",
                               !.path = <<Word("ListFolder")>>,
                               !.vars = <<TreeCtxNav>>],
                act("action", ariaRole, ariaName),
                [NoLine EXCEPT !.kind = "awaitPromises",
                               !.vars = <<TreeCtxNav>>]>>
         ELSE <<act("action", ariaRole, ariaName)>>
    ELSE IF label # ""
    THEN <<act("action", "text", label)>>
    ELSE <<act("gap", "", "")>>

\* apiAwaits of generateStepCode: one entry for each distinct non-empty
\* endpoint path; only the mutating calls when the step has one; none for a
\* startup step and for a context menu on a tree item
apiAwaitsOf(step, promiseCounter) ==
    LET isTreeContextMenu ==
            step.action = "contextmenu" /\ step.target.ariaRole = "treeitem"
        hasMutation ==
            \E i \in 1..Len(step.api) : step.api[i].method \in MutatingMethods
        kept == SelectSeq(step.api, LAMBDA a :
                    ~hasMutation \/ a.method \in MutatingMethods)
        path(i) == extractEndpointPath(kept[i].endpoint)
        firsts == SelectSeq([i \in 1..Len(kept) |-> i], LAMBDA i :
                      /\ path(i) # <<>>
                      /\ \A j \in 1..(i - 1) : path(j) # path(i))
    IN  IF step.action = "startup" \/ step.api = <<>> \/ isTreeContextMenu
        THEN <<>>
        ELSE [k \in 1..Len(firsts) |->
                [path |-> path(firsts[k]),
                 method |-> kept[firsts[k]].method,
                 varName |-> PromiseVar(promiseCounter, k - 1)]]

\* the declarations of the response promises, before the action
PromiseLines(apiAwaits) ==
    [k \in 1..Len(apiAwaits) |->
        [NoLine EXCEPT !.kind = "responsePromise",
                       !.path = apiAwaits[k].path,
                       !.method = IF apiAwaits[k].method \in MutatingMethods
                                  THEN apiAwaits[k].method ELSE "",
                       !.vars = <<apiAwaits[k].varName>>]]

\* await of the response promises, after the action: one line for all
AwaitLines(apiAwaits) ==
    IF apiAwaits = <<>> THEN <<>>
    ELSE <<[NoLine EXCEPT !.kind = "awaitPromises",
                          !.vars = [k \in 1..Len(apiAwaits) |->
                                       apiAwaits[k].varName]]>>

\* to.match(/folder=([^&]+)/): the first folder parameter with a value
FolderMatch(to) ==
    SelectSeq(to, LAMBDA t : t.k = "q" /\ t.s = "folder" /\ t.v # "")

\* generateNavigateAwaitCode(awaitConditions, indent): the lines, or the
\* error decodeURIComponent raises
generateNavigateAwaitCode(step) ==
    IF step.navigateTo = <<>> \/ FolderMatch(step.navigateTo) = <<>>
    THEN [error |-> "", lines |-> <<>>]
    ELSE IF FolderMatch(step.navigateTo)[1].v \in MalformedValues
    THEN [error |-> "URIError", lines |-> <<>>]
    ELSE [error |-> "", 
          lines |-> <<[NoLine EXCEPT !.kind = "waitForURL",
                                     !.value = FolderMatch(step.navigateTo)[1].v]>>]

\* the toast assertions; toast.message.replace raises a TypeError on a toast
\* without message
ToastLines(toasts) ==
    IF \E i \in 1..Len(toasts) : toasts[i].message = ""
    THEN [error |-> "TypeError", lines |-> <<>>]
    ELSE [error |-> "",
          lines |-> [i \in 1..Len(toasts) |->
                       [NoLine EXCEPT !.kind = "expectToast",
                                      !.value = toasts[i].message]]]

UnnamedInputRoles == {"textbox", "textarea"}
StructuralRoles == {"banner", "navigation", "main", "contentinfo", "complementary"}

\* generateStepCode(step, fillPlan, promiseCounter, stepIndex): the lines of
\* the step, the fill plan it leaves and the error it raises, if any. Steps of
\* the model carry no modals and no dataSourceChanges.
generateStepCode(step, plan, promiseCounter) ==
    LET comment == [NoLine EXCEPT !.kind = "comment", !.name = step.action]
        apiAwaits == apiAwaitsOf(step, promiseCounter)
        head == <<comment>> \o PromiseLines(apiAwaits)
        skipped == [error |-> "", lines |-> <<>>, plan |-> plan]
        ariaRole == step.target.ariaRole
        ariaName == step.target.ariaName
        \* what follows the switch: awaits, navigation, toasts
        tail(lines, planAfter) ==
            LET nav == IF step.action # "startup" /\ (step.api # <<>> \/ step.navigateTo # <<>>)
                       THEN generateNavigateAwaitCode(step)
                       ELSE [error |-> "", lines |-> <<>>]
                toasts == ToastLines(step.toasts)
            IN  IF nav.error # ""
                THEN [error |-> nav.error, lines |-> <<>>, plan |-> planAfter]
                ELSE IF toasts.error # ""
                THEN [error |-> toasts.error, lines |-> <<>>, plan |-> planAfter]
                ELSE [error |-> "",
                      lines |-> head \o lines \o AwaitLines(apiAwaits)
                                  \o nav.lines \o toasts.lines,
                      plan |-> planAfter]
    IN
    CASE step.action = "startup" ->
           tail(<<[NoLine EXCEPT !.kind = "goto",
                      !.path = IF step.api # <<>>
                               THEN extractEndpointPath(step.api[1].endpoint)
                               ELSE <<>>]>>, plan)
      [] step.action = "click" ->
           IF /\ ariaRole \in UnnamedInputRoles /\ ariaName = ""
              /\ ~step.target.hasFormData
           THEN skipped
           ELSE IF /\ ariaRole \in StructuralRoles /\ ariaName = ""
                   /\ ~\E i \in 1..Len(step.api) :
                          step.api[i].method \in MutatingMethods
           THEN skipped
           ELSE LET code == generateClickCode(step, "click", plan)
                IN  tail(code.lines, code.plan)
      [] step.action = "contextmenu" ->
           tail(generateContextMenuCode(step), plan)
      [] step.action = "dblclick" ->
           LET code == generateClickCode(step, "dblclick", plan)
           IN  tail(code.lines, code.plan)
      [] step.action = "keydown" ->
           IF ariaRole = "textbox" /\ ariaName # "" /\ HasFill(plan, ariaName)
           THEN IF ariaName \in plan.filled
                THEN skipped
                ELSE [error |-> "",
                      lines |-> head \o <<FillLine(plan, ariaName)>>,
                      plan |-> ConsumeFill(plan, ariaName)]
           ELSE skipped
      [] step.action = "toast" ->
           LET toasts == ToastLines(step.toasts)
           IN  IF toasts.error # ""
               THEN [error |-> toasts.error, lines |-> <<>>, plan |-> plan]
               ELSE tail(toasts.lines, plan)
      [] OTHER ->
           tail(<<[NoLine EXCEPT !.kind = "todo", !.name = step.action]>>, plan)

\* the lines generatePlaywright adds after the block of step si: a wait for
\* the target of the next step after a mutating call or after a navigation
\* without api call, the modal observer after startup. Steps of the model
\* carry no await.navigate.from, so no walk to a starting page is generated.
AfterStepLines(ss, si) ==
    LET step == ss[si]
        nt == ss[si + 1].target
        hasMutation == \E i \in 1..Len(step.api) :
                           step.api[i].method \in {"POST", "PUT", "DELETE"}
        refreshGet == \E i \in 1..Len(step.api) : step.api[i].method = "GET"
        waitNext == IF si < Len(ss) /\ nt.ariaRole # "" /\ nt.ariaName # ""
                    THEN <<[NoLine EXCEPT !.kind = "waitForTarget",
                                          !.role = nt.ariaRole,
                                          !.name = nt.ariaName]>>
                    ELSE <<>>
    IN  IF step.action = "startup"
        THEN <<[NoLine EXCEPT !.kind = "modalObserver"]>>
        ELSE IF step.api # <<>>
        THEN IF hasMutation /\ si < Len(ss)
             THEN (IF refreshGet
                   THEN <<[NoLine EXCEPT !.kind = "waitForTimeout"]>>
                   ELSE <<>>) \o waitNext
             ELSE <<>>
        ELSE IF step.navigateTo # <<>> THEN waitNext ELSE <<>>

\* the number of distinct non-empty endpoint paths of a step's api awaits
SeenPaths(step) ==
    {extractEndpointPath(step.api[i].endpoint) : i \in 1..Len(step.api)}
        \ {<<>>}

\* the loop of generatePlaywright from step si on
RECURSIVE GenerateFrom(_, _, _, _)
GenerateFrom(ss, si, plan, responsePromiseCounter) ==
    IF si > Len(ss) THEN [error |-> "", blocks |-> <<>>]
    ELSE
    LET code == generateStepCode(ss[si], plan, responsePromiseCounter)
        counter == IF ss[si].action # "startup" /\ ss[si].api # <<>>
                   THEN responsePromiseCounter
                          + (IF Cardinality(SeenPaths(ss[si])) > 1
                             THEN Cardinality(SeenPaths(ss[si])) ELSE 1)
                   ELSE responsePromiseCounter
        rest == GenerateFrom(ss, si + 1, code.plan, counter)
    IN  IF code.error # "" THEN [error |-> code.error, blocks |-> <<>>]
        ELSE IF rest.error # "" THEN rest
        ELSE [error |-> "",
              blocks |-> <<[lines |-> code.lines,
                            after |-> AfterStepLines(ss, si)]>> \o rest.blocks]

\* distilled.steps with the startup step first
StartupFirst(ss) ==
    LET startups == SelectSeq(ss, LAMBDA s : s.action = "startup")
        otherSteps == SelectSeq(ss, LAMBDA s : s.action # "startup")
    IN  IF startups # <<>> THEN <<startups[1]>> \o otherSteps ELSE otherSteps

\* generatePlaywright(distilled, options): the blocks of the script, one for
\* each step of the reordered journey, or the error that ends the call
generatePlaywright(ss) ==
    LET ordered == reorderFormSteps(StartupFirst(ss))
    IN  GenerateFrom(ordered, 1, buildFillPlan(ordered), 0)

----------------------------------------------------------------------------
(* Inputs and bounds                                                       *)

MaxEvents == 3        \* events in the two logs of a comparison, together
MaxRunEvents == 3     \* events in the baseline and the captured trace of a run

FilesUrl == <<Seg("api"), Seg("files")>>
LicenseUrl == <<Host("h"), Seg("api"), Seg("license"), Qp("x", "1")>>
UsersUrl == <<Seg("api"), Seg("users")>>

CompareEvents ==
    { ApiComplete("t1", Verb("post"), FilesUrl),
      ApiComplete("t1", Verb("GET"), LicenseUrl),
      ApiComplete("startup-1", Verb("GET"), UsersUrl),
      Submit("t1", "a"),
      Submit("t1", "b"),
      Submit("t1", ""),
      Navigate("t1", <<Seg("a")>>),
      Navigate("t1", <<Seg("b"), Qp("x", "1")>>),
      Interaction("t1", 0, "contextmenu", "uidX", "X"),
      ActionInteraction("t1", "contextmenu", "X") }

Formats == {"array", "journey"}

IgnoreLists == { <<>>, << <<Seg("license")>> >>, << <<Seg("files")>>, <<Seg("users")>> >> }

ExitCodes == {0, 1}

NoReport == [ErrorReport EXCEPT !.error = "no comparison"]

----------------------------------------------------------------------------
(* The comparator as a state machine: two logs are put together event by   *)
(* event, then compared once.                                              *)

Init ==
    /\ logA = <<>>
    /\ logB = <<>>
    /\ trace1 = TraceArg("array", <<>>)
    /\ trace2 = TraceArg("array", <<>>)
    /\ ignoreApis = <<>>
    /\ report = NoReport
    /\ testExit = 0
    /\ captured = FALSE
    /\ semanticOutput = <<>>
    /\ baselineFound = FALSE
    /\ exitCode = 0
    /\ rawLogs = <<>>
    /\ steps = <<>>
    /\ probeTs = 0
    /\ activeMods = {}
    /\ journey = <<>>
    /\ orderedSteps = <<>>
    /\ script = [error |-> "", blocks |-> <<>>]
    /\ methodArg = NoMethod
    /\ urlArg = <<>>
    /\ resolved = ""
    /\ callTimeline = <<>>
    /\ firstLog = <<>>
    /\ firstSteps = <<>>
    /\ otherLog = <<>>
    /\ callPhase = "none"
    /\ entryInput = [form |-> "text", lines |-> <<>>, logs |-> <<>>]
    /\ outcome = [kind |-> "none", steps |-> <<>>, message |-> ""]
    /\ pc = "input"

AppendA ==
    /\ pc = "input"
    /\ Len(logA) + Len(logB) < MaxEvents
    /\ \E e \in CompareEvents : logA' = Append(logA, e)
    /\ UNCHANGED <<genVars, resolveVars, callVars, inputVars, logB, trace1, trace2, ignoreApis, report, testExit, captured,
                   semanticOutput, baselineFound, exitCode, pc, distillVars>>

AppendB ==
    /\ pc = "input"
    /\ Len(logA) + Len(logB) < MaxEvents
    /\ \E e \in CompareEvents : logB' = Append(logB, e)
    /\ UNCHANGED <<genVars, resolveVars, callVars, inputVars, logA, trace1, trace2, ignoreApis, report, testExit, captured,
                   semanticOutput, baselineFound, exitCode, pc, distillVars>>

\* one call compareSemanticTraces(trace1, trace2, {ignoreApis})
Compare ==
    /\ pc = "input"
    /\ \E f1 \in Formats, f2 \in Formats, ignore \in IgnoreLists :
          /\ trace1' = TraceArg(f1, logA)
          /\ trace2' = TraceArg(f2, logB)
          /\ ignoreApis' = ignore
          /\ report' = compareSemanticTraces(TraceArg(f1, logA), TraceArg(f2, logB), ignore)
    /\ pc' = "compared"
    /\ UNCHANGED <<genVars, resolveVars, callVars, inputVars, logA, logB, testExit, captured, semanticOutput,
                   baselineFound, exitCode, distillVars>>

\* one call compareSemanticTraces(J, J, {ignoreApis}) on the first log
CompareSelf ==
    /\ pc = "input"
    /\ logB = <<>>
    /\ \E f \in Formats, ignore \in IgnoreLists :
          /\ trace1' = TraceArg(f, logA)
          /\ trace2' = TraceArg(f, logA)
          /\ ignoreApis' = ignore
          /\ report' = compareSemanticTraces(TraceArg(f, logA), TraceArg(f, logA), ignore)
    /\ pc' = "compared"
    /\ UNCHANGED <<genVars, resolveVars, callVars, inputVars, logA, logB, testExit, captured, semanticOutput,
                   baselineFound, exitCode, distillVars>>

Next == AppendA \/ AppendB \/ Compare \/ CompareSelf

Spec == Init /\ [][Next]_vars

----------------------------------------------------------------------------
(* test.sh run <journey>: the baseline and the trace the script captures   *)
(* are put together event by event, then the command runs once.            *)

RunEvents ==
    { ApiComplete("t1", Verb("post"), FilesUrl),
      ApiComplete("t1", Verb("GET"), LicenseUrl),
      Submit("t1", "a"),
      Navigate("t1", <<Seg("a")>>) }

\* the baseline file holds the text of a JSON array or a grouped-text export
BaselineFormats == {"jsonText", "text"}

AppendBaseline ==
    /\ pc = "input"
    /\ Len(logA) + Len(logB) < MaxRunEvents
    /\ \E e \in RunEvents : logA' = Append(logA, e)
    /\ UNCHANGED <<genVars, resolveVars, callVars, inputVars, logB, trace1, trace2, ignoreApis, report, testExit, captured,
                   semanticOutput, baselineFound, exitCode, pc, distillVars>>

AppendCaptured ==
    /\ pc = "input"
    /\ Len(logA) + Len(logB) < MaxRunEvents
    /\ \E e \in RunEvents : logB' = Append(logB, e)
    /\ UNCHANGED <<genVars, resolveVars, callVars, inputVars, logA, trace1, trace2, ignoreApis, report, testExit, captured,
                   semanticOutput, baselineFound, exitCode, pc, distillVars>>

\* run, when the baseline of the journey does not exist: exit 1
RunWithoutBaseline ==
    /\ pc = "input"
    /\ logA = <<>> /\ logB = <<>>
    /\ baselineFound' = FALSE
    /\ exitCode' = 1
    /\ pc' = "exited"
    /\ UNCHANGED <<genVars, resolveVars, callVars, inputVars, logA, logB, trace1, trace2, ignoreApis, report, testExit,
                   captured, semanticOutput, distillVars>>

\* run: generate the script, run it (TEST_EXIT), compare the baseline with
\* captured-trace.json if the script wrote one, exit
Run ==
    /\ pc = "input"
    /\ \E exit \in ExitCodes, f \in BaselineFormats, ignore \in IgnoreLists,
          cap \in (IF logB = <<>> THEN BOOLEAN ELSE {TRUE}) :
          LET r == IF cap
                   THEN compareSemanticTraces(TraceArg(f, logA),
                                              TraceArg("jsonText", logB), ignore)
                   ELSE NoReport
              out == IF cap THEN formatSemanticReport(r) ELSE <<>>
          IN  /\ testExit' = exit
              /\ captured' = cap
              /\ trace1' = TraceArg(f, logA)
              /\ trace2' = TraceArg("jsonText", logB)
              /\ ignoreApis' = ignore
              /\ report' = r
              /\ semanticOutput' = out
              /\ exitCode' = RunExitCode(exit, out)
    /\ baselineFound' = TRUE
    /\ pc' = "exited"
    /\ UNCHANGED <<genVars, resolveVars, callVars, inputVars, logA, logB, distillVars>>

NextRun == AppendBaseline \/ AppendCaptured \/ RunWithoutBaseline \/ Run

SpecRun == Init /\ [][NextRun]_vars

----------------------------------------------------------------------------
(* The distiller as a state machine: a raw log is put together event by    *)
(* event, then distilled once.                                             *)

MaxLog == 4           \* events in a log that is distilled

At(e, ts) == [e EXCEPT !.perfTs = ts]

Toast(tid, ts, msg) ==
    [NoEvent EXCEPT !.kind = "toast", !.traceId = tid, !.perfTs = ts,
                    !.message = msg]

DistillEvents ==
    { At(ApiComplete("startup-1", Verb("GET"), UsersUrl), 0),
      At(ApiComplete("startup-2", Verb("GET"), LicenseUrl), 5),
      Interaction("startup-1", 0, "click", "X", "X"),
      Interaction("t1", 1, "click", "X", "X"),
      Interaction("t2", 2, "click", "X", "X"),
      Interaction("t3", 3, "dblclick", "X", "X"),
      Interaction("t3", 3, "click", "X", "X"),
      Interaction("t1", 1, "click", "", "P"),
      Interaction("t2", 2, "click", "", "Q"),
      Interaction("t3", 3, "dblclick", "", "P"),
      Toast("", 4, "saved"),
      [Interaction("t2", 2, "click", "I", "") EXCEPT !.componentType = "XSInspector"] }

AppendEvent ==
    /\ pc = "input"
    /\ Len(rawLogs) < MaxLog
    /\ \E e \in DistillEvents : rawLogs' = Append(rawLogs, e)
    /\ UNCHANGED <<genVars, resolveVars, callVars, inputVars, compareVars, steps, probeTs, activeMods, pc>>

\* one call distillJsonLogs(rawLogs)
Distill ==
    /\ pc = "input"
    /\ steps' = distillJsonLogs(rawLogs)
    /\ pc' = "distilled"
    /\ UNCHANGED <<genVars, resolveVars, callVars, inputVars, compareVars, rawLogs, probeTs, activeMods>>

NextDistill == AppendEvent \/ Distill

SpecDistill == Init /\ [][NextDistill]_vars

----------------------------------------------------------------------------
(* The modifier resolver: key and click events are put together, then the  *)
(* log is distilled, or the resolver is asked about one time.              *)

MaxModifierLog == 3   \* events in a log of key and click events

KeyEvent(tid, ts, name, key) ==
    [NoEvent EXCEPT !.kind = "interaction", !.traceId = tid, !.perfTs = ts,
                    !.interaction = name, !.dKey = key]

ModifierEvents ==
    { KeyEvent("k1", 0, "keydown", "Control"),
      KeyEvent("k1", 1, "keydown", "Control"),
      KeyEvent("k2", 0, "keyup", "Control"),
      KeyEvent("k2", 300, "keyup", "Control"),
      KeyEvent("k3", 400, "keydown", "Shift"),
      KeyEvent("k3", 450, "keydown", "a"),
      Interaction("c1", 499, "click", "X", "X"),
      Interaction("c2", 500, "click", "X", "X"),
      Interaction("c3", 501, "click", "X", "X"),
      [Interaction("c4", 501, "click", "Y", "Y") EXCEPT !.altKey = TRUE],
      [Interaction("c5", 450, "dblclick", "Y", "Y") EXCEPT !.ctrlKey = TRUE] }

ProbeTimes == {0, 1, 300, 499, 500, 501, 901}

AppendModifierEvent ==
    /\ pc = "input"
    /\ Len(rawLogs) < MaxModifierLog
    /\ \E e \in ModifierEvents : rawLogs' = Append(rawLogs, e)
    /\ UNCHANGED <<genVars, resolveVars, callVars, inputVars, compareVars, steps, probeTs, activeMods, pc>>

\* one call getActiveModifiers(perfTs) on the timeline of rawLogs
Resolve ==
    /\ pc = "input"
    /\ \E t \in ProbeTimes :
          /\ probeTs' = t
          /\ activeMods' = getActiveModifiers(modifierTimeline(rawLogs), t)
    /\ pc' = "resolved"
    /\ UNCHANGED <<genVars, resolveVars, callVars, inputVars, compareVars, rawLogs, steps>>

NextModifiers == AppendModifierEvent \/ Distill \/ Resolve

SpecModifiers == Init /\ [][NextModifiers]_vars

----------------------------------------------------------------------------
(* The reordering pass as a state machine: a step list is put together     *)
(* step by step, then handed to reorderFormSteps once.                     *)

MaxSteps == 5         \* steps in a list that is reordered

Key(ariaName, key) ==
    [NoStep EXCEPT !.action = "keydown", !.hasTarget = TRUE,
                   !.target = [NoTarget EXCEPT !.ariaRole = "textbox",
                                               !.ariaName = ariaName,
                                               !.key = key]]

Click(label) ==
    [NoStep EXCEPT !.action = "click", !.hasTarget = TRUE,
                   !.target = [NoTarget EXCEPT !.label = label]]

SubmitClick(name) ==
    [NoStep EXCEPT !.action = "click", !.hasTarget = TRUE,
                   !.target = [NoTarget EXCEPT !.label = "Save",
                                               !.hasFormData = TRUE,
                                               !.formData = name]]

ReorderSteps ==
    { Key("Name", "a"), Key("Name", "b"), Key("Notes", "c"),
      [NoStep EXCEPT !.action = "keydown", !.hasTarget = TRUE,
                     !.target = [NoTarget EXCEPT !.key = "Escape"]],
      Click("row"),
      [NoStep EXCEPT !.action = "toast",
                     !.toasts = <<[type |-> "default", message |-> "saved"]>>],
      SubmitClick("report") }

AppendStep ==
    /\ pc = "input"
    /\ Len(journey) < MaxSteps
    /\ \E st \in ReorderSteps : journey' = Append(journey, st)
    /\ UNCHANGED <<compareVars, distillVars, resolveVars, callVars, inputVars, orderedSteps, script, pc>>

\* one call reorderFormSteps(journey)
Reorder ==
    /\ pc = "input"
    /\ orderedSteps' = reorderFormSteps(journey)
    /\ pc' = "reordered"
    /\ UNCHANGED <<compareVars, distillVars, resolveVars, callVars, inputVars, journey, script>>

NextReorder == AppendStep \/ Reorder

SpecReorder == Init /\ [][NextReorder]_vars

----------------------------------------------------------------------------
(* The generator as a state machine: a log is put together trace group by  *)
(* trace group, then distilled and handed to generatePlaywright once.      *)

MaxGroups == 3        \* trace groups in a log that is distilled and generated

\* the trace id and the time of the k-th interaction group
TraceIdOf(k) ==
    CASE k = 1 -> "t1" [] k = 2 -> "t2" [] k = 3 -> "t3" [] k = 4 -> "t4"
      [] OTHER -> "t5"

Described(e, role, name) == [e EXCEPT !.dAriaRole = role, !.dAriaName = name]

FolderUrl(v) == <<Seg("files"), Qp("folder", v)>>

\* the trace groups a session is made of, as the engine logs them
GroupKinds ==
    {"startup", "save", "type", "bare", "refresh", "open", "openOdd", "tree"}

Group(kind, tid, ts) ==
    CASE kind = "startup" ->
           <<ApiComplete("startup-1", Verb("GET"), UsersUrl)>>
      [] kind = "save" ->
           <<Described(Interaction(tid, ts, "click", "save", "Save"), "button", "Save"),
             Submit(tid, "report"),
             ApiComplete(tid, Verb("post"), FilesUrl),
             ApiComplete(tid, Verb("get"), FilesUrl)>>
      [] kind = "type" ->
           <<[Described(Interaction(tid, ts, "keydown", "name", ""), "textbox", "Name")
                 EXCEPT !.dKey = "a"]>>
      [] kind = "bare" ->
           <<Interaction(tid, ts, "click", "", "")>>
      [] kind = "refresh" ->
           <<Described(Interaction(tid, ts, "click", "files", "Files"), "row", "Files"),
             ApiComplete(tid, Verb("get"), FilesUrl),
             ApiComplete(tid, Verb("get"), FilesUrl \o <<Qp("x", "1")>>),
             Toast(tid, ts, "loaded")>>
      [] kind = "open" ->
           <<Interaction(tid, ts, "dblclick", "docs", "docs"),
             Navigate(tid, FolderUrl("docs"))>>
      [] kind = "openOdd" ->
           <<Interaction(tid, ts, "dblclick", "odd", "100%"),
             Navigate(tid, FolderUrl("100%"))>>
      [] OTHER ->
           <<Described(Interaction(tid, ts, "contextmenu", "tree", "docs"),
                       "treeitem", "docs"),
             ApiComplete(tid, Verb("get"), FilesUrl)>>

GroupsIn(log) == {log[i].traceId : i \in 1..Len(log)}

AppendGroup ==
    /\ pc = "input"
    /\ Cardinality(GroupsIn(rawLogs)) < MaxGroups
    /\ \E kind \in GroupKinds :
          /\ kind = "startup" => "startup-1" \notin GroupsIn(rawLogs)
          /\ LET k == Cardinality(GroupsIn(rawLogs)) + 1
             IN  rawLogs' = rawLogs \o Group(kind, TraceIdOf(k), 100 * k)
    /\ UNCHANGED <<compareVars, genVars, resolveVars, callVars, inputVars, steps, probeTs, activeMods, pc>>

\* one call generatePlaywright(distillJsonLogs(rawLogs))
Generate ==
    /\ pc = "input"
    /\ journey' = distillJsonLogs(rawLogs)
    /\ orderedSteps' = reorderFormSteps(StartupFirst(journey'))
    /\ script' = generatePlaywright(journey')
    /\ pc' = "generated"
    /\ UNCHANGED <<compareVars, distillVars, resolveVars, callVars, inputVars>>

NextGenerate == AppendGroup \/ Generate

SpecGenerate == Init /\ [][NextGenerate]_vars

----------------------------------------------------------------------------
(* The method resolver as a state machine: a method field is chosen, a url *)
(* is put together token by token, then resolveMethod is called once.      *)

MaxUrlTokens == 4     \* tokens of a url handed to resolveMethod

MethodFields ==
    { NoMethod, Verb("get"), Verb("POST"), Embedded("delete"), Opaque("{$props.m}"),
      Ternary("new", "true", "post", "put"),
      Ternary("new", "true", "put", "post"),
      Ternary("new", "false", "post", "put"),
      Ternary("id", "true", "post", "patch") }

UrlTokens ==
    { Host("localhost"), Seg("api"), Seg("users"), Seg("elvis"),
      Qp("new", "true"), Qp("new", "false"), Qp("id", "7") }

\* a url is an optional origin, then path segments, then query parameters
ChooseMethod ==
    /\ pc = "input"
    /\ methodArg = NoMethod /\ urlArg = <<>>
    /\ \E m \in MethodFields \ {NoMethod} : methodArg' = m
    /\ UNCHANGED <<compareVars, distillVars, genVars, callVars, inputVars, urlArg, resolved, pc>>

AppendUrlToken ==
    /\ pc = "input"
    /\ Len(urlArg) < MaxUrlTokens
    /\ \E t \in UrlTokens :
          /\ t.k = "host" => urlArg = <<>>
          /\ t.k = "seg" => \A i \in 1..Len(urlArg) : urlArg[i].k # "q"
          /\ urlArg' = Append(urlArg, t)
    /\ UNCHANGED <<compareVars, distillVars, genVars, callVars, inputVars, methodArg, resolved, pc>>

\* one call resolveMethod(methodArg, urlArg)
ResolveMethod ==
    /\ pc = "input"
    /\ resolved' = resolveMethod(methodArg, urlArg)
    /\ pc' = "method"
    /\ UNCHANGED <<compareVars, distillVars, genVars, callVars, inputVars, methodArg, urlArg>>

NextResolveMethod == ChooseMethod \/ AppendUrlToken \/ ResolveMethod

SpecResolveMethod == Init /\ [][NextResolveMethod]_vars

----------------------------------------------------------------------------
(* Repeated distillation: a log is put together and distilled, then other  *)
(* logs are, then the first log again.                                     *)

MaxCallLog == 2       \* events in a log of a repeated distillation

CallEvents ==
    { KeyEvent("k1", 0, "keydown", "Control"),
      Interaction("c1", 100, "click", "X", "X"),
      At(ApiComplete("startup-1", Verb("get"), UsersUrl), 0) }

AppendCallEvent ==
    /\ pc = "input"
    /\ Len(rawLogs) < MaxCallLog
    /\ \E e \in CallEvents : rawLogs' = Append(rawLogs, e)
    /\ UNCHANGED <<compareVars, genVars, resolveVars, inputVars, callVars,
                   steps, probeTs, activeMods, pc>>

\* one call distillJsonLogs(rawLogs), after whatever calls came before
DistillCall ==
    /\ pc = "input"
    /\ LET timeline == modifierTimelineOnto(NewModifierTimeline(callTimeline),
                                            rawLogs)
       IN  /\ steps' = distillJsonLogsCall(timeline, rawLogs)
           /\ callTimeline' = timeline
           /\ IF callPhase = "none"
              THEN /\ firstLog' = rawLogs
                   /\ firstSteps' = steps'
                   /\ callPhase' = "first"
                   /\ UNCHANGED otherLog
              ELSE /\ UNCHANGED <<firstLog, firstSteps>>
                   /\ IF rawLogs # firstLog
                      THEN otherLog' = rawLogs /\ callPhase' = "later"
                      ELSE UNCHANGED <<otherLog, callPhase>>
    /\ pc' = "distilled"
    /\ UNCHANGED <<compareVars, genVars, resolveVars, inputVars, rawLogs, probeTs,
                   activeMods>>

\* the caller turns to another log
NextLog ==
    /\ pc = "distilled"
    /\ callPhase # "none"
    /\ rawLogs' = <<>>
    /\ pc' = "input"
    /\ UNCHANGED <<compareVars, genVars, resolveVars, inputVars, callVars,
                   steps, probeTs, activeMods>>

NextCalls == AppendCallEvent \/ DistillCall \/ NextLog

SpecCalls == Init /\ [][NextCalls]_vars

----------------------------------------------------------------------------
(* The ordering of the trace groups: a log whose events carry their own    *)
(* times is listed in any order, then distilled once.                      *)

MaxOrderLog == 3      \* events in a log whose listing order is free

\* two events of group t1 (times 1 and 10), two of t2 (5 and 7), one of t3
OrderEvents ==
    { Interaction("t1", 1, "click", "A", "A"),
      At(ApiComplete("t1", Verb("GET"), FilesUrl), 10),
      Interaction("t2", 5, "click", "B", "B"),
      At(ApiComplete("t2", Verb("GET"), UsersUrl), 7),
      Interaction("t3", 3, "click", "C", "C") }

AppendOrderEvent ==
    /\ pc = "input"
    /\ Len(rawLogs) < MaxOrderLog
    /\ \E e \in OrderEvents : rawLogs' = Append(rawLogs, e)
    /\ UNCHANGED <<compareVars, genVars, resolveVars, callVars, inputVars, steps, probeTs, activeMods, pc>>

NextOrder == AppendOrderEvent \/ Distill

SpecOrder == Init /\ [][NextOrder]_vars

----------------------------------------------------------------------------
(* The implicit bucket: a log with events that carry no traceId is         *)
(* distilled once.                                                         *)

MaxBucketLog == 3     \* events in a log with events that carry no traceId

BucketEvents ==
    { Interaction("", 1, "click", "X", "X"),
      Toast("", 2, "saved"),
      Toast("", 3, "done"),
      At(ApiComplete("", Verb("GET"), FilesUrl), 4),
      Interaction("t1", 5, "click", "T", "T") }

AppendBucketEvent ==
    /\ pc = "input"
    /\ Len(rawLogs) < MaxBucketLog
    /\ \E e \in BucketEvents : rawLogs' = Append(rawLogs, e)
    /\ UNCHANGED <<compareVars, genVars, resolveVars, callVars, inputVars, steps, probeTs, activeMods, pc>>

NextBucket == AppendBucketEvent \/ Distill

SpecBucket == Init /\ [][NextBucket]_vars

----------------------------------------------------------------------------
(* Dialogs in one bucket: a click, then modal events of the same trace. An  *)
(* event is logged without time (perfTs 0 stands for the absent field), at  *)
(* the time of the event before it, or one later.                           *)

MaxModalLog == 4      \* events in a log with modal events

ModalKinds == {"modal:show", "modal:confirm", "modal:cancel"}

\* a modal event; a confirm carries the label of the pressed button, so the
\* lookup through show.buttons is not taken
Modal(kind, tid, ts) ==
    [NoEvent EXCEPT !.kind = kind, !.traceId = tid, !.perfTs = ts,
                    !.title = IF kind = "modal:show" THEN "Delete" ELSE "",
                    !.buttonLabel = IF kind = "modal:confirm" THEN "OK" ELSE ""]

LastTs(log) ==
    IF log = <<>> THEN 0
    ELSE CHOOSE t \in {log[i].perfTs : i \in 1..Len(log)} :
            \A i \in 1..Len(log) : log[i].perfTs <= t

AppendModalEvent ==
    /\ pc = "input"
    /\ Len(rawLogs) < MaxModalLog
    /\ IF rawLogs = <<>>
       THEN rawLogs' = <<Interaction("t1", 1, "click", "X", "X")>>
       ELSE \E kind \in ModalKinds, ts \in {0, LastTs(rawLogs), LastTs(rawLogs) + 1} :
                rawLogs' = Append(rawLogs, Modal(kind, "t1", ts))
    /\ UNCHANGED <<compareVars, genVars, resolveVars, callVars, inputVars, steps, probeTs, activeMods, pc>>

NextModals == AppendModalEvent \/ Distill

SpecModals == Init /\ [][NextModals]_vars

----------------------------------------------------------------------------
(* Collection snapshots: a session of clicks, each with or without an api   *)
(* call and with or without a state:changes event of its trace. In the      *)
(* second specification snapshots are also logged by the startup trace and  *)
(* by a trace without interaction (a background refresh).                   *)

MaxSnapshotGroups == 3    \* buckets in a log with state:changes events

\* a state:changes event with one diffJson entry; after holds the label of
\* each item of the array
StateChange(tid, path, isArray, after) ==
    [NoEvent EXCEPT !.kind = "state:changes", !.traceId = tid,
                    !.diffJson = <<[path |-> path, isArray |-> isArray,
                                    after |-> after]>>]

SnapshotChoices ==
    { <<"DataSource:files", TRUE, <<"a">>>>,
      <<"DataSource:files", TRUE, <<"a", "b">>>>,
      <<"DataSource:files", TRUE, <<>>>>,
      <<"DataSource:files", FALSE, <<>>>>,
      <<"DataSource:users", TRUE, <<"b">>>> }

ApiChoices == {"", "GET", "POST"}

NumBuckets(log) ==
    Cardinality({i \in 1..Len(log) :
        \/ log[i].kind = "interaction"
        \/ log[i].kind = "state:changes" /\ log[i].traceId \in {"bg", "startup-1"}})

NumClicks(log) == Cardinality({i \in 1..Len(log) : log[i].kind = "interaction"})

\* one click bucket: the click, its api call, its state:changes event
AppendSnapshotGroup ==
    /\ pc = "input"
    /\ NumBuckets(rawLogs) < MaxSnapshotGroups
    /\ LET k == NumClicks(rawLogs) + 1
           tid == TraceIdOf(k)
       IN  \E m \in ApiChoices, c \in SnapshotChoices \cup {<<>>} :
               rawLogs' = rawLogs
                   \o <<Interaction(tid, k, "click", "row", "Row")>>
                   \o (IF m = "" THEN <<>> ELSE <<ApiComplete(tid, Verb(m), FilesUrl)>>)
                   \o (IF c = <<>> THEN <<>>
                       ELSE <<StateChange(tid, c[1], c[2], c[3])>>)
    /\ UNCHANGED <<compareVars, genVars, resolveVars, callVars, inputVars, steps, probeTs, activeMods, pc>>

\* a snapshot logged outside a click bucket: by the startup trace at the
\* head of the log, or by a trace that holds no interaction
AppendBackgroundSnapshot ==
    /\ pc = "input"
    /\ NumBuckets(rawLogs) < MaxSnapshotGroups
    /\ \E after \in {<<"a">>, <<"a", "b">>} :
          \/ /\ rawLogs = <<>>
             /\ rawLogs' = <<ApiComplete("startup-1", Verb("GET"), FilesUrl),
                             StateChange("startup-1", "DataSource:files", TRUE, after)>>
          \/ rawLogs' = Append(rawLogs, StateChange("bg", "DataSource:files", TRUE, after))
    /\ UNCHANGED <<compareVars, genVars, resolveVars, callVars, inputVars, steps, probeTs, activeMods, pc>>

NextSnapshots == AppendSnapshotGroup \/ Distill

SpecSnapshots == Init /\ [][NextSnapshots]_vars

NextSnapshotSources == AppendSnapshotGroup \/ AppendBackgroundSnapshot \/ Distill

SpecSnapshotSources == Init /\ [][NextSnapshotSources]_vars

----------------------------------------------------------------------------
(* Forms: a journey of text-field interactions and submissions is put       *)
(* together step by step, then handed to generatePlaywright.                *)

MaxFillSteps == 5     \* steps in a journey with forms

TextboxClick(ariaName) ==
    [NoStep EXCEPT !.action = "click", !.hasTarget = TRUE,
                   !.target = [NoTarget EXCEPT !.ariaRole = "textbox",
                                               !.ariaName = ariaName]]

FillSteps ==
    { Key("Name", "a"), TextboxClick("Name"), Key("User Name:", "b"),
      Key("Notes", "c"), SubmitClick("v1"), SubmitClick("v2") }

AppendFillStep ==
    /\ pc = "input"
    /\ Len(journey) < MaxFillSteps
    /\ \E st \in FillSteps : journey' = Append(journey, st)
    /\ UNCHANGED <<compareVars, distillVars, resolveVars, callVars, inputVars, orderedSteps, script, pc>>

\* one call generatePlaywright({steps: journey})
GenerateSteps ==
    /\ pc = "input"
    /\ orderedSteps' = reorderFormSteps(StartupFirst(journey))
    /\ script' = generatePlaywright(journey)
    /\ pc' = "generated"
    /\ UNCHANGED <<compareVars, distillVars, resolveVars, callVars, inputVars, journey>>

NextFill == AppendFillStep \/ GenerateSteps

SpecFill == Init /\ [][NextFill]_vars

----------------------------------------------------------------------------
(* The two exports of one session: the session is put together trace group *)
(* by trace group, each group written to the structured log and, in the    *)
(* line grammar parseTrace reads, to the text export; then both exports    *)
(* are distilled.                                                          *)

MaxSession == 3       \* trace groups in a session that is exported twice

SessionKinds == {"startup", "clickX", "dblclickX", "dblclickZ", "saveY"}

\* the events of a trace group in the structured log
SessionEvents(kind, tid, ts) ==
    CASE kind = "startup" ->
           <<At(ApiComplete("startup-1", Verb("GET"), UsersUrl), ts)>>
      [] kind = "clickX" -> <<Interaction(tid, ts, "click", "X", "X")>>
      [] kind = "dblclickX" -> <<Interaction(tid, ts, "dblclick", "X", "X")>>
      [] kind = "dblclickZ" -> <<Interaction(tid, ts, "dblclick", "Z", "Z")>>
      [] OTHER ->
           <<Interaction(tid, ts, "click", "Y", "Y"),
             At(ApiComplete(tid, Verb("POST"), FilesUrl), ts)>>

\* the lines of the same trace group in the text export
SessionLines(kind, tid, ts) ==
    CASE kind = "startup" ->
           <<HeaderLine("Startup"), TraceIdLine("startup-1"),
             EventLine(TextApi("GET", UsersUrl, ts))>>
      [] kind = "clickX" ->
           <<HeaderLine("click"), TraceIdLine(tid),
             EventLine(TextInteraction("click", "X", ts))>>
      [] kind = "dblclickX" ->
           <<HeaderLine("dblclick"), TraceIdLine(tid),
             EventLine(TextInteraction("dblclick", "X", ts))>>
      [] kind = "dblclickZ" ->
           <<HeaderLine("dblclick"), TraceIdLine(tid),
             EventLine(TextInteraction("dblclick", "Z", ts))>>
      [] OTHER ->
           <<HeaderLine("click"), TraceIdLine(tid),
             EventLine(TextInteraction("click", "Y", ts)),
             EventLine(TextApi("POST", FilesUrl, ts))>>

AppendSessionGroup ==
    /\ pc = "input"
    /\ Cardinality(GroupsIn(rawLogs)) < MaxSession
    /\ \E kind \in SessionKinds :
          LET k == Cardinality(GroupsIn(rawLogs)) + 1
          IN  /\ kind = "startup" => k = 1
              /\ rawLogs' = rawLogs \o SessionEvents(kind, TraceIdOf(k), 100 * k)
              /\ entryInput' =
                    [entryInput EXCEPT
                        !.lines = @ \o SessionLines(kind, TraceIdOf(k), 100 * k)]
    /\ UNCHANGED <<compareVars, genVars, resolveVars, callVars, steps, probeTs, activeMods, outcome, pc>>

\* distillJsonLogs on the structured log, parseTrace and distillTrace on the
\* text export
DistillExports ==
    /\ pc = "input"
    /\ steps' = distillJsonLogs(rawLogs)
    /\ outcome' = Journey(distillTrace(parseTrace(entryInput.lines)))
    /\ pc' = "exported"
    /\ UNCHANGED <<compareVars, genVars, resolveVars, callVars, rawLogs, probeTs, activeMods, entryInput>>

NextExports == AppendSessionGroup \/ DistillExports

SpecExports == Init /\ [][NextExports]_vars

----------------------------------------------------------------------------
(* The entry points as a state machine: an input is put together, then one *)
(* entry point is run on it.                                               *)

MaxLines == 3         \* lines of a text input

TextLines ==
    { HeaderLine("Startup"), HeaderLine("click Save"), TraceIdLine("t1"),
      EventLine(TextInteraction("click", "Save", 10)),
      EventLine(TextApi("GET", <<Seg("users")>>, 5)),
      OtherLine }

OtherInputs ==
    { [form |-> f, lines |-> <<>>, logs |-> l] :
        f \in {"jsonArrayText", "array"},
        l \in {<<>>, <<Interaction("t1", 1, "click", "X", "X")>>} }
    \cup { [form |-> f, lines |-> <<>>, logs |-> <<>>] :
             f \in {"jsonObjectText", "brokenJsonText", "number"} }
    \cup { [form |-> "journey", lines |-> <<>>, logs |-> <<Click("row")>>] }

AppendLine ==
    /\ pc = "input"
    /\ entryInput.form = "text"
    /\ Len(entryInput.lines) < MaxLines
    /\ \E l \in TextLines :
          entryInput' = [entryInput EXCEPT !.lines = Append(@, l)]
    /\ UNCHANGED <<compareVars, distillVars, genVars, resolveVars, callVars,
                   outcome, pc>>

ChooseInput ==
    /\ pc = "input"
    /\ entryInput.form = "text" /\ entryInput.lines = <<>>
    /\ \E inp \in OtherInputs : entryInput' = inp
    /\ UNCHANGED <<compareVars, distillVars, genVars, resolveVars, callVars,
                   outcome, pc>>

\* node distill-trace.js <file>
DistillFile ==
    /\ pc = "input"
    /\ entryInput.form \in {"text", "jsonArrayText", "jsonObjectText",
                            "brokenJsonText"}
    /\ outcome' = distillCli(entryInput)
    /\ pc' = "distilledFile"
    /\ UNCHANGED <<compareVars, distillVars, genVars, resolveVars, callVars,
                   entryInput>>

\* normalizeInput(entryInput)
NormalizeInput ==
    /\ pc = "input"
    /\ outcome' = normalizeInput(entryInput)
    /\ pc' = "normalized"
    /\ UNCHANGED <<compareVars, distillVars, genVars, resolveVars, callVars,
                   entryInput>>

NextInput == AppendLine \/ ChooseInput \/ DistillFile \/ NormalizeInput

SpecInput == Init /\ [][NextInput]_vars

----------------------------------------------------------------------------
(* Properties of the comparator                                            *)

MutatingVerbs == {"POST", "PUT", "DELETE", "PATCH"}

\* the endpoint the comparator derives from an api event: the path of its
\* url, without the query, after the last /api
Endpoint(e) == StripApiPrefix(BeforeQuery(e.url))

RawInputs ==
    /\ pc = "compared"
    /\ trace1.type \in {"array", "jsonText"}
    /\ trace2.type \in {"array", "jsonText"}

IsMutationOf(e, ep) ==
    /\ e.kind = "api:complete"
    /\ ~IsStartupId(e.traceId)
    /\ resolveMethod(e.method, UrlOrEndpoint(e)) \in MutatingVerbs
    /\ Endpoint(e) = ep

EndpointsOf(log) == {Endpoint(log[i]) : i \in {j \in 1..Len(log) : log[j].kind = "api:complete"}}

InsertAt(s, p, e) == SubSeq(s, 1, p) \o <<e>> \o SubSeq(s, p + 1, Len(s))

HasDifference(r, type) == \E i \in 1..Len(r.differences) : r.differences[i].type = type

\* C1: two raw logs that are identical except that endpoint ep has one
\* successful mutating call in the first and two in the second compare with
\* match = false and a mutation-count mismatch entry naming ep.
C1_MutationCountMismatch ==
    RawInputs =>
      \A ep \in EndpointsOf(trace2.logs) :
        ( /\ Len(SelectSeq(trace1.logs, LAMBDA e : IsMutationOf(e, ep))) = 1
          /\ Len(SelectSeq(trace2.logs, LAMBDA e : IsMutationOf(e, ep))) = 2
          /\ SelectSeq(trace1.logs, LAMBDA e : ~IsMutationOf(e, ep))
               = SelectSeq(trace2.logs, LAMBDA e : ~IsMutationOf(e, ep)) )
        => /\ report.error = ""
           /\ ~report.match
           /\ \E i \in 1..Len(report.differences) :
                 /\ report.differences[i].type = "mutation_count"
                 /\ \E a \in report.differences[i].apis : Includes(a, ep)

AddedCalls ==
    {e \in CompareEvents : e.kind = "api:complete"}
      \cup {ApiComplete("t1", Ternary("new", "true", "post", "put"), UsersUrl)}

IsIgnoredCall(e, ignore) ==
    \E i \in 1..Len(ignore) : Includes(Endpoint(e), ignore[i])

SameVerdict(r1, r2) ==
    /\ r1.error = r2.error
    /\ r1.match = r2.match
    /\ r1.differences = r2.differences

\* C3: adding to either log an API call whose endpoint contains an entry of
\* the ignore list changes neither the verdict nor the differences list.
C3_IgnoredCallsChangeNothing ==
    (pc = "compared") =>
      \A e \in {c \in AddedCalls : IsIgnoredCall(c, ignoreApis)} :
        /\ \A p \in 0..Len(trace1.logs) :
              SameVerdict(report,
                  compareSemanticTraces(
                      TraceArg(trace1.type, InsertAt(trace1.logs, p, e)),
                      trace2, ignoreApis))
        /\ \A p \in 0..Len(trace2.logs) :
              SameVerdict(report,
                  compareSemanticTraces(
                      trace1,
                      TraceArg(trace2.type, InsertAt(trace2.logs, p, e)),
                      ignoreApis))

\* an ignored call of the second log that the first log lacks, and the
\* comparison matches all the same
C3_Witness ==
    /\ RawInputs
    /\ report.match
    /\ \E i \in 1..Len(trace2.logs) :
          /\ IsComparedApi(trace2.logs[i])
          /\ IsIgnoredCall(trace2.logs[i], ignoreApis)
          /\ ApiSignature(trace2.logs[i]) \notin extractSemantics(trace1).apis

\* C4: logs that differ in the number of submit events, or in the submitted
\* name at some position of the list of submit events, compare with
\* match = false.
C4_SubmissionDifferenceDetected ==
    RawInputs =>
      LET s1 == SelectSeq(trace1.logs, IsSubmit)
          s2 == SelectSeq(trace2.logs, IsSubmit)
      IN  ( \/ Len(s1) # Len(s2)
            \/ \E i \in 1..Len(s1) : s1[i].argName # s2[i].argName )
          => report.error = "" /\ ~report.match

\* logs equal event for event, but for the destination of navigate events
SameButNavigateTo(l1, l2) ==
    /\ Len(l1) = Len(l2)
    /\ \A i \in 1..Len(l1) :
          \/ l1[i] = l2[i]
          \/ /\ l1[i].kind = "navigate"
             /\ [l1[i] EXCEPT !.to = <<>>] = [l2[i] EXCEPT !.to = <<>>]
    /\ \E i \in 1..Len(l1) : BeforeQuery(l1[i].to) # BeforeQuery(l2[i].to)

\* C5: logs identical except for the destinations of their navigate events
\* compare with match = false and a navigation mismatch entry.
C5_NavigationMismatchReported ==
    (RawInputs /\ SameButNavigateTo(trace1.logs, trace2.logs))
      => /\ report.error = ""
         /\ ~report.match
         /\ HasDifference(report, "navigation")

\* the target of a context-menu interaction of a raw log
RawContextMenuTargets(log) ==
    {(IF log[i].dLabel # "" THEN log[i].dLabel
      ELSE IF log[i].dText # "" THEN log[i].dText ELSE log[i].uid) :
        i \in {j \in 1..Len(log) :
                 /\ log[j].kind = "interaction"
                 /\ "contextmenu" \in {log[j].interaction, log[j].eventName}}}

\* C6: raw logs whose sets of context-menu targets differ compare with
\* match = false and a context-menu entry.
C6_ContextMenuDifferenceReported ==
    (RawInputs /\ RawContextMenuTargets(trace1.logs) # RawContextMenuTargets(trace2.logs))
      => /\ report.error = ""
         /\ ~report.match
         /\ HasDifference(report, "context_menu_targets")

----------------------------------------------------------------------------
(* Properties of the run command                                           *)

\* the semantic comparison of the baseline and the captured trace passed
SemanticPass == captured /\ report.error = "" /\ report.match

\* C7 as stated: run exits 0 exactly when the semantic comparison passes,
\* whatever the exit status of the script.
C7_ExitZeroIffSemanticPass ==
    (pc = "exited" /\ captured /\ report.error = "")
        => (exitCode = 0 <=> report.match)

\* C7, what run does: it exits 0 exactly when the script exits 0 or the semantic
\* comparison passes; otherwise it exits with the script's status.
C7_ExitZeroIffScriptOrSemanticPass ==
    (pc = "exited" /\ baselineFound) =>
        /\ exitCode = 0 <=> (testExit = 0 \/ SemanticPass)
        /\ exitCode # 0 => exitCode = testExit

\* the script failed, the comparison of two non-empty traces passed, exit 0
C7_Witness ==
    /\ pc = "exited"
    /\ testExit # 0
    /\ logA # <<>> /\ logB # <<>>
    /\ SemanticPass
    /\ exitCode = 0

----------------------------------------------------------------------------
(* Properties of the distiller                                             *)

StartupSteps == {i \in 1..Len(steps) : steps[i].action = "startup"}

\* the ids of the trace groups of a log that start with startup- and hold no
\* interaction event
StartupGroups(log) ==
    {tid \in StartupIds :
        /\ \E i \in 1..Len(log) : log[i].traceId = tid
        /\ \A i \in 1..Len(log) :
              log[i].traceId = tid => log[i].kind # "interaction"}

UndedupedSteps ==
    DiffSnapshotsFrom(StepsOfTraces(traceArray(rawLogs), modifierTimeline(rawLogs)),
                      1, <<>>)

SameTarget(s1, s2) ==
    /\ s1.target.testId = s2.target.testId
    /\ s1.target.label = s2.target.label
    /\ s1.target.component = s2.target.component

\* the steps of three consecutive trace groups are click, click, dblclick on
\* one target; j is the position of the first among the undeduped steps
IsTripleAt(ss, j) ==
    /\ j + 2 <= Len(ss)
    /\ ss[j].action = "click"
    /\ ss[j + 1].action = "click"
    /\ ss[j + 2].action = "dblclick"
    /\ SameTarget(ss[j], ss[j + 1])
    /\ SameTarget(ss[j], ss[j + 2])

\* the number of steps of ss with action a on the target of step t
StepsOnTargetOf(ss, a, t) ==
    Cardinality({i \in 1..Len(ss) : ss[i].action = a /\ SameTarget(ss[i], t)})

\* C9: when three consecutive trace groups are click, click, dblclick on the
\* same target X, the journey holds the dblclick step in their place and
\* neither click step: the steps before them and the steps after them are
\* distilled as they are without the three.
C9_ClickClickDblclickCollapses ==
    (pc = "distilled") =>
      \A j \in 1..Len(UndedupedSteps) :
        IsTripleAt(UndedupedSteps, j) =>
          LET before == SubSeq(UndedupedSteps, 1, j - 1)
              after == SubSeq(UndedupedSteps, j + 3, Len(UndedupedSteps))
          IN  /\ steps = DedupeFrom(before, 1)
                           \o <<UndedupedSteps[j + 2]>>
                           \o DedupeFrom(after, 1)
              /\ StepsOnTargetOf(steps, "click", UndedupedSteps[j])
                    <= StepsOnTargetOf(UndedupedSteps, "click", UndedupedSteps[j]) - 2
              /\ StepsOnTargetOf(steps, "dblclick", UndedupedSteps[j])
                    = StepsOnTargetOf(UndedupedSteps, "dblclick", UndedupedSteps[j])
              /\ (before = <<>> /\ after = <<>>) =>
                    steps = <<UndedupedSteps[j + 2]>>

\* the three groups and nothing else that yields a step: one dblclick step
C9_Witness ==
    /\ pc = "distilled"
    /\ Len(UndedupedSteps) = 3
    /\ IsTripleAt(UndedupedSteps, 1)
    /\ Len(steps) = 1
    /\ steps[1].action = "dblclick"
    /\ steps[1].target.testId = "X"

----------------------------------------------------------------------------
(* Properties of the modifier resolver                                     *)

\* the keydown and keyup events of key k in the log, at or before time t
KeyEventsUpTo(log, k, t) ==
    {i \in 1..Len(log) :
        /\ IsModifierEvent(log[i])
        /\ log[i].dKey = k
        /\ log[i].perfTs <= t}

\* the most recent of them: the greatest perfTs, and among equal ones the
\* one listed last
MostRecent(log, evs) ==
    CHOOSE i \in evs :
        \A j \in evs : \/ log[j].perfTs < log[i].perfTs
                       \/ (log[j].perfTs = log[i].perfTs /\ j <= i)

HeldAt(log, k, t) ==
    LET evs == KeyEventsUpTo(log, k, t)
    IN  /\ evs # {}
        /\ InteractionName(log[MostRecent(log, evs)]) = "keydown"
        /\ t - log[MostRecent(log, evs)].perfTs <= MAX_MODIFIER_HOLD_MS

\* C10: the resolver reports key k active at time T exactly when the most
\* recent keydown or keyup of k at or before T is a keydown that lies no more
\* than 500 ms before T; a keydown of Control at 0 with no other Control
\* event makes Control active at 499 and not at 501.
C10_ActiveIffRecentKeydown ==
    (pc = "resolved") =>
      /\ \A k \in MODIFIER_KEYS :
            k \in activeMods <=> HeldAt(rawLogs, k, probeTs)
      /\ ( /\ \E i \in 1..Len(rawLogs) :
                rawLogs[i] = KeyEvent("k1", 0, "keydown", "Control")
           /\ \A i \in 1..Len(rawLogs) :
                (IsModifierEvent(rawLogs[i]) /\ rawLogs[i].dKey = "Control")
                   => rawLogs[i] = KeyEvent("k1", 0, "keydown", "Control") )
         => /\ probeTs = 499 => "Control" \in activeMods
            /\ probeTs = 501 => "Control" \notin activeMods

\* keydown of Control at 0, no keyup, asked about 501: not active
C10_Witness ==
    /\ pc = "resolved"
    /\ probeTs = 501
    /\ \E i \in 1..Len(rawLogs) :
          rawLogs[i] = KeyEvent("k1", 0, "keydown", "Control")
    /\ \A i \in 1..Len(rawLogs) : InteractionName(rawLogs[i]) # "keyup"
    /\ "Control" \notin activeMods
    /\ "Shift" \in activeMods

----------------------------------------------------------------------------
(* Properties of the modifier inference                                    *)

\* the modifier flags an interaction event carries in its detail
ExplicitFlags(e) ==
    {k \in MODIFIER_KEYS : \/ k = "Control" /\ e.ctrlKey
                           \/ k = "Meta" /\ e.metaKey
                           \/ k = "Shift" /\ e.shiftKey
                           \/ k = "Alt" /\ e.altKey}

\* the modifier flags on the target of a step
StepFlags(step) ==
    {k \in MODIFIER_KEYS : \/ k = "Control" /\ step.target.ctrlKey
                           \/ k = "Meta" /\ step.target.metaKey
                           \/ k = "Shift" /\ step.target.shiftKey
                           \/ k = "Alt" /\ step.target.altKey}

\* the trace groups of a log that yield a step, in journey order
StepGroups(log) ==
    SelectSeq(traceArray(log), LAMBDA g : extractStepFromJsonLogs(g) # <<>>)

\* the interaction event of a trace group: the first one listed
FirstInteraction(g) ==
    g.events[CHOOSE i \in 1..Len(g.events) :
                /\ g.events[i].kind = "interaction"
                /\ \A j \in 1..(i - 1) : g.events[j].kind # "interaction"]

\* C11: a step whose interaction event carried a modifier flag has exactly
\* those flags; a step that is not a click or dblclick has exactly the flags
\* of its interaction event; flags beyond the event's own appear only on a
\* click or dblclick step whose event carried none, and are then the keys
\* held at the time of the group's first event.
C11_InferredFlagsOnlyOnBareClicks ==
    (pc = "distilled") =>
      /\ Len(UndedupedSteps) = Len(StepGroups(rawLogs))
      /\ \A j \in 1..Len(steps) :
            \E i \in 1..Len(UndedupedSteps) : steps[j] = UndedupedSteps[i]
      /\ \A i \in 1..Len(UndedupedSteps) :
            LET s == UndedupedSteps[i]
                g == StepGroups(rawLogs)[i]
            IN  s.hasTarget =>
                  LET explicit == ExplicitFlags(FirstInteraction(g))
                  IN  /\ explicit # {} => StepFlags(s) = explicit
                      /\ s.action \notin {"click", "dblclick"}
                            => StepFlags(s) = explicit
                      /\ StepFlags(s) # explicit =>
                            /\ s.action \in {"click", "dblclick"}
                            /\ explicit = {}
                            /\ StepFlags(s) =
                                 {k \in MODIFIER_KEYS :
                                     HeldAt(rawLogs, k, g.firstPerfTs)}

\* Shift is held when a click that carries Alt happens: the step has Alt only
C11_Witness ==
    /\ pc = "distilled"
    /\ HeldAt(rawLogs, "Shift", 501)
    /\ \E j \in 1..Len(steps) :
          /\ steps[j].action = "click"
          /\ steps[j].target.testId = "Y"
          /\ StepFlags(steps[j]) = {"Alt"}
    /\ \E j \in 1..Len(steps) :
          /\ steps[j].action = "keydown"
          /\ StepFlags(steps[j]) = {}

----------------------------------------------------------------------------
(* Properties of the reordering pass                                       *)

\* the number of times st occurs in the list ss
Occurrences(ss, st) == Cardinality({i \in 1..Len(ss) : ss[i] = st})

IsPermutation(s1, s2) ==
    /\ Len(s1) = Len(s2)
    /\ \A i \in 1..Len(s1) : Occurrences(s1, s1[i]) = Occurrences(s2, s1[i])

\* a keystroke on the text field of step st
OnFieldOf(st, x) ==
    /\ x.action = "keydown" /\ x.hasTarget
    /\ x.target.ariaRole = "textbox"
    /\ x.target.ariaName = st.target.ariaName

\* the position of the first submission after position p of ss, 0 if none
NextSubmission(ss, p) ==
    LET subs == {j \in (p + 1)..Len(ss) :
                    /\ ss[j].action = "click" /\ ss[j].hasTarget
                    /\ ss[j].target.hasFormData}
    IN  IF subs = {} THEN 0 ELSE CHOOSE j \in subs : \A k \in subs : j <= k

\* ss[p] is a keystroke on a text field whose keystrokes, before the next
\* submission, are interrupted by a different step and then resumed
InterleavedAt(ss, p) ==
    /\ OnFieldOf(ss[p], ss[p])
    /\ \E q, r \in (p + 1)..(NextSubmission(ss, p) - 1) :
          /\ q < r
          /\ ~OnFieldOf(ss[p], ss[q])
          /\ OnFieldOf(ss[p], ss[r])

\* the keystrokes on the field of ss[p] from p up to the next submission
FieldKeystrokes(ss, p) ==
    SelectSeq(SubSeq(ss, p, NextSubmission(ss, p) - 1),
              LAMBDA x : OnFieldOf(ss[p], x))

\* the other steps between p and the next submission
BackgroundSteps(ss, p) ==
    SelectSeq(SubSeq(ss, p, NextSubmission(ss, p) - 1),
              LAMBDA x : ~OnFieldOf(ss[p], x))

\* in out, the keystrokes ks stand together right before a step sub, and the
\* steps bg right after it
StandsAround(out, ks, sub, bg) ==
    \E m \in 1..Len(out) :
        /\ out[m] = sub
        /\ m - Len(ks) >= 1 /\ m + Len(bg) <= Len(out)
        /\ SubSeq(out, m - Len(ks), m - 1) = ks
        /\ SubSeq(out, m + 1, m + Len(bg)) = bg

C13_NoInterleavingNoChange ==
    (pc = "reordered") =>
      ( (\A p \in 1..Len(journey) : ~InterleavedAt(journey, p))
          => orderedSteps = journey )

\* keystrokes, then a click, then the submission, with no keystroke after
\* the click: nothing moves
C13_Witness ==
    /\ pc = "reordered"
    /\ journey = <<Key("Name", "a"), Key("Name", "b"), Click("row"),
                   SubmitClick("report")>>
    /\ orderedSteps = journey

----------------------------------------------------------------------------
(* Properties of the method resolver                                       *)

\* the values the url carries for query parameter p
ParamValues(url, p) ==
    {url[i].v : i \in {j \in 1..Len(url) : url[j].k = "q" /\ url[j].s = p}}

\* the number of non-empty segments of the url's path
PathSegments(url) == Cardinality({i \in 1..Len(url) : url[i].k = "seg"})

\* C14: for the method template p == 'v' ? 'a' : 'b' and a url, the resolver
\* returns A when the url carries p with value v, B when it carries p with
\* another value and, when p is absent and the template is new == 'true', B
\* if the url's path has more than two non-empty segments and A otherwise.
C14_TernaryResolvedFromUrl ==
    (pc = "method" /\ methodArg.form = "ternary" /\ urlArg # <<>>) =>
      LET vals == ParamValues(urlArg, methodArg.p)
          A == toUpperCase(methodArg.t)
          B == toUpperCase(methodArg.f)
      IN  /\ vals = {methodArg.v} => resolved = A
          /\ (vals # {} /\ methodArg.v \notin vals) => resolved = B
          /\ (vals = {} /\ methodArg.p = "new" /\ methodArg.v = "true") =>
                resolved = IF PathSegments(urlArg) > 2 THEN B ELSE A

\* C14 on urls without an origin, for which the parts the code counts are
\* the segments of the path
C14_TernaryResolvedFromRelativeUrl ==
    (\A i \in 1..Len(urlArg) : urlArg[i].k # "host")
       => C14_TernaryResolvedFromUrl

\* new == 'true' ? 'post' : 'put' on /api/users/elvis with no parameter: PUT
C14_Witness ==
    /\ pc = "method"
    /\ methodArg = Ternary("new", "true", "post", "put")
    /\ urlArg = <<Seg("api"), Seg("users"), Seg("elvis")>>
    /\ resolved = "PUT"

----------------------------------------------------------------------------
(* Properties of repeated distillation                                     *)

----------------------------------------------------------------------------
(* Properties of the entry points                                          *)

\* the input is a structured event array, or a text export with at least one
\* trace header
IsRecognizedFormat(inp) ==
    \/ inp.form \in {"jsonArrayText", "array"}
    \/ /\ inp.form = "text"
       /\ \E i \in 1..Len(inp.lines) : inp.lines[i].type = "header"

\* C16: an input that is neither a structured event array nor a text export
\* of the recognized shape is rejected with an error by every entry point;
\* none returns a journey for it.
C16_UnrecognizedInputRejected ==
    ( /\ pc \in {"distilledFile", "normalized"}
      /\ entryInput.form # "journey"
      /\ ~IsRecognizedFormat(entryInput) )
        => outcome.kind = "error"

\* a text of lines that match no pattern is turned into an empty journey
C16_Witness ==
    /\ pc = "distilledFile"
    /\ entryInput.form = "text"
    /\ entryInput.lines = <<OtherLine, OtherLine>>
    /\ outcome = Journey(<<>>)

\* a click, double click or context menu on a target without role, name and
\* label: no locator can be derived for it
HasNoLocator(step) ==
    /\ step.action \in {"click", "dblclick", "contextmenu"}
    /\ step.target.ariaRole = ""
    /\ step.target.label = ""

HasGapComment(lines) == \E i \in 1..Len(lines) : lines[i].kind = "gap"

\* C17: generatePlaywright returns a script for every distilled journey, and
\* the block of a step for which no locator can be derived holds an
\* ACCESSIBILITY GAP comment
C17_GenerationAlwaysSucceeds ==
    pc = "generated" =>
        /\ script.error = ""
        /\ \A i \in 1..Len(orderedSteps) :
              HasNoLocator(orderedSteps[i]) =>
                  HasGapComment(script.blocks[i].lines)

\* a journey whose generation ends in an error: a step navigates to a folder
\* whose name holds a "%" that starts no escape
C17_Witness ==
    /\ pc = "generated"
    /\ script.error = "URIError"
    /\ \E i \in 1..Len(journey) :
          /\ FolderMatch(journey[i].navigateTo) # <<>>
          /\ FolderMatch(journey[i].navigateTo)[1].v \in MalformedValues

\* the response promises a block awaits
AwaitedPromises(lines) ==
    UNION {Range(lines[i].vars) :
             i \in {j \in 1..Len(lines) : lines[j].kind = "awaitPromises"}}

\* C18: the block of every step but startup awaits one response for each
\* api await recorded on the step
C18_OneWaitPerApiAwait ==
    (pc = "generated" /\ script.error = "") =>
        \A i \in 1..Len(orderedSteps) :
            orderedSteps[i].action # "startup" =>
                Cardinality(AwaitedPromises(script.blocks[i].lines))
                    = Len(orderedSteps[i].api)

\* a step with two api awaits whose block awaits one response
C18_Witness ==
    /\ pc = "generated"
    /\ script.error = ""
    /\ \E i \in 1..Len(orderedSteps) :
          /\ orderedSteps[i].action # "startup"
          /\ Len(orderedSteps[i].api) = 2
          /\ Cardinality(AwaitedPromises(script.blocks[i].lines)) = 1

----------------------------------------------------------------------------
(* Properties of the order of the steps                                    *)

\* the least perfTs among the events of a trace group
MinPerfTs(events) ==
    CHOOSE t \in {events[i].perfTs : i \in 1..Len(events)} :
        \A i \in 1..Len(events) : t <= events[i].perfTs

\* for each trace group that yields a step, in the order of the journey, the
\* least time of its events
BucketTimes(log) ==
    LET yielding == SelectSeq(traceArray(log), LAMBDA g :
                        extractStepFromJsonLogs(g) # <<>>)
    IN  [i \in 1..Len(yielding) |-> MinPerfTs(yielding[i].events)]

\* C20: the steps of the journey stand in ascending order of the least time
\* of the events of their trace group, however the events are listed in the
\* log (stated on the journeys that keep one step for each yielding group)
C20_StepsAscendByMinTimestamp ==
    (pc = "distilled" /\ Len(steps) = Len(BucketTimes(rawLogs))) =>
        \A i \in 1..(Len(steps) - 1) :
            BucketTimes(rawLogs)[i] <= BucketTimes(rawLogs)[i + 1]

\* the api event of t1 (time 10) is listed before the click of t2 (time 5)
\* and the click of t1 (time 1): the step of t2 comes first
C20_Witness ==
    /\ pc = "distilled"
    /\ rawLogs = <<At(ApiComplete("t1", Verb("GET"), FilesUrl), 10),
                   Interaction("t2", 5, "click", "B", "B"),
                   Interaction("t1", 1, "click", "A", "A")>>
    /\ Len(steps) = 2
    /\ steps[1].target.testId = "B"
    /\ steps[2].target.testId = "A"

----------------------------------------------------------------------------
(* Properties of the two exports                                           *)

\* the actions of a step list, in order
ActionsOf(ss) == [i \in 1..Len(ss) |-> ss[i].action]

\* C19: the text export and the structured log of one session distil to the
\* same number of steps with the same actions in the same order
C19_ExportsDistilAlike ==
    pc = "exported" => ActionsOf(outcome.steps) = ActionsOf(steps)

\* click, click, double click on one target: three steps from the text
\* export, one from the structured log
C19_Witness ==
    /\ pc = "exported"
    /\ ActionsOf(outcome.steps) = <<"click", "click", "dblclick">>
    /\ ActionsOf(steps) = <<"dblclick">>

----------------------------------------------------------------------------
(* Properties of the implicit bucket                                       *)

\* the events of the log that carry no traceId
WithoutTraceId(log) == SelectSeq(log, LAMBDA e : e.traceId = "")

\* C21: the events without traceId never yield an interaction step: their
\* bucket gives no step or one toast step without target, and no step of the
\* journey is on the target of an interaction without traceId
C21_NoInteractionStepWithoutTraceId ==
    pc = "distilled" =>
        /\ \A i \in 1..Len(traceArray(rawLogs)) :
              traceArray(rawLogs)[i].traceId = "unknown" =>
                  LET st == extractStepFromJsonLogs(traceArray(rawLogs)[i])
                  IN  \/ st = <<>>
                      \/ st[1].action = "toast" /\ ~st[1].hasTarget
        /\ \A i \in 1..Len(steps) : \A j \in 1..Len(WithoutTraceId(rawLogs)) :
              WithoutTraceId(rawLogs)[j].kind = "interaction" =>
                  TestIdOf(steps[i]) # WithoutTraceId(rawLogs)[j].uid

\* a log of one click without traceId: the journey is that click
C21_Witness ==
    /\ pc = "distilled"
    /\ rawLogs = <<Interaction("", 1, "click", "X", "X")>>
    /\ Len(steps) = 1
    /\ steps[1].action = "click"
    /\ steps[1].target.testId = "X"

----------------------------------------------------------------------------
(* Properties of the startup step                                          *)

\* no two api awaits of the step have the same method and endpoint
HasDistinctApis(step) ==
    \A i, j \in 1..Len(step.api) :
        (/\ step.api[i].method = step.api[j].method
         /\ step.api[i].endpoint = step.api[j].endpoint) => i = j

\* C27: the api awaits of a startup step hold no two entries with the same
\* method and endpoint
C27_StartupApisDistinct ==
    pc = "distilled" =>
        \A i \in 1..Len(steps) :
            steps[i].action = "startup" => HasDistinctApis(steps[i])

\* the startup group completes the same call twice: both are awaited
C27_Witness ==
    /\ pc = "distilled"
    /\ Len(steps) = 1
    /\ steps[1].action = "startup"
    /\ Len(steps[1].api) = 2
    /\ steps[1].api[1] = steps[1].api[2]

----------------------------------------------------------------------------
(* Properties of the dedupe pass                                           *)

\* the steps that are not one of the two clicks of such a triple
NotCollapsible(ss) ==
    LET at == {i \in 1..Len(ss) :
                 ~IsTripleAt(ss, i) /\ ~(i > 1 /\ IsTripleAt(ss, i - 1))}
    IN  SelectSeq([i \in 1..Len(ss) |-> [at |-> i, step |-> ss[i]]],
                  LAMBDA x : x.at \in at)

RECURSIVE IsSubSeqOf(_, _)
IsSubSeqOf(a, b) ==
    IF a = <<>> THEN TRUE
    ELSE IF b = <<>> THEN FALSE
    ELSE IF Head(a) = Head(b) THEN IsSubSeqOf(Tail(a), Tail(b))
    ELSE IsSubSeqOf(a, Tail(b))

\* C28: the dedupe pass removes only the two clicks of a click, click,
\* dblclick run on one target; every other step is kept, in its order,
\* whether the targets carry a test id or not
C28_DedupeRemovesOnlySameTargetClicks ==
    pc = "distilled" =>
        LET kept == NotCollapsible(UndedupedSteps)
        IN  IsSubSeqOf([i \in 1..Len(kept) |-> kept[i].step], steps)

\* clicks on P and Q and a double click on P, none with a test id: both
\* clicks are removed
C28_Witness ==
    /\ pc = "distilled"
    /\ rawLogs = <<Interaction("t1", 1, "click", "", "P"),
                   Interaction("t2", 2, "click", "", "Q"),
                   Interaction("t3", 3, "dblclick", "", "P")>>
    /\ Len(steps) = 1
    /\ steps[1].action = "dblclick"

----------------------------------------------------------------------------
(* Properties of the keystrokes under the reordering pass                  *)

\* the steps with their positions in the list, so that equal steps can be
\* told apart after the pass
Tagged(ss) ==
    [i \in 1..Len(ss) |->
        [action |-> ss[i].action, hasTarget |-> ss[i].hasTarget,
         target |-> ss[i].target, api |-> ss[i].api,
         navigateTo |-> ss[i].navigateTo, toasts |-> ss[i].toasts,
         modals |-> ss[i].modals, snapshots |-> ss[i].snapshots,
         dataSourceChanges |-> ss[i].dataSourceChanges, at |-> i]]

\* the position after the pass of the step that stood at position i
PositionAfter(ss, i) ==
    CHOOSE p \in 1..Len(ss) : reorderFormSteps(Tagged(ss))[p].at = i

\* C29: reorderFormSteps moves no textbox keydown across a submission: a
\* textbox keydown that stands before a submission step in the input stands
\* before it in the output
C29_KeystrokesStayBeforeSubmission ==
    pc = "reordered" =>
        \A i, j \in 1..Len(journey) :
            (i < j /\ IsTextboxKeydown(journey[i]) /\ isSubmit(journey[j]))
                => PositionAfter(journey, i) < PositionAfter(journey, j)

\* keystrokes on Name, Notes, Name, then the submission: the keystroke on
\* Notes ends up behind the submission
C29_Witness ==
    /\ pc = "reordered"
    /\ journey = <<Key("Name", "a"), Key("Notes", "c"), Key("Name", "b"),
                   SubmitClick("report")>>
    /\ orderedSteps = <<Key("Name", "a"), Key("Name", "b"),
                        SubmitClick("report"), Key("Notes", "c")>>
    /\ PositionAfter(journey, 2) = 4

----------------------------------------------------------------------------
(* Properties of the comparison under exchange of its arguments            *)

\* the report of the comparison with the two traces exchanged
ExchangedReport == compareSemanticTraces(trace2, trace1, ignoreApis)

\* C30: compareSemanticTraces(A, B) and compareSemanticTraces(B, A) return
\* the same match verdict, for every pair of logs and every ignore list
C30_MatchVerdictSymmetric ==
    pc = "compared" =>
        /\ ExchangedReport.error = report.error
        /\ report.error = "" => ExchangedReport.match = report.match

\* two logs that do not match: an api of the first is missing in the second,
\* and the reports of the two comparisons differ in their differences
C30_Witness ==
    /\ pc = "compared"
    /\ report.error = ""
    /\ ~report.match
    /\ \E i \in 1..Len(report.differences) :
          report.differences[i].type = "apis_missing"
    /\ \A i \in 1..Len(report.differences) :
          report.differences[i].type # "apis_extra"
    /\ ExchangedReport.differences # report.differences

----------------------------------------------------------------------------
\* the resolution of each modal:show of a list of events, by position: the
\* first confirm or cancel event listed after the show and before the next
\* show, "unknown" where there is none
PairedByPosition(events) ==
    LET showAt == {p \in 1..Len(events) : events[p].kind = "modal:show"}
        nextShow(p) ==
            IF \E q \in showAt : q > p
            THEN CHOOSE q \in showAt : q > p /\ \A r \in showAt : r > p => q <= r
            ELSE Len(events) + 1
        resAt(p) == {q \in (p + 1)..(nextShow(p) - 1) :
                        events[q].kind \in {"modal:confirm", "modal:cancel"}}
        actionOf(p) ==
            IF resAt(p) = {} THEN "unknown"
            ELSE LET q == CHOOSE q \in resAt(p) : \A r \in resAt(p) : q <= r
                 IN  IF events[q].kind = "modal:confirm" THEN "confirm" ELSE "cancel"
        shows == SelectSeq([p \in 1..Len(events) |-> p], LAMBDA p : p \in showAt)
    IN  [i \in 1..Len(shows) |-> actionOf(shows[i])]

ModalActions(step) == [i \in 1..Len(step.modals) |-> step.modals[i].action]

\* C24: in the step of a bucket, each modal:show has the resolution of the
\* nearest confirm or cancel event after it and before the next modal:show,
\* and "unknown" exactly when there is no such event.
C24_ShowPairedWithNearestResolution ==
    (pc = "distilled" /\ rawLogs # <<>>)
        => /\ Len(steps) = 1
           /\ ModalActions(steps[1]) = PairedByPosition(rawLogs)

\* a dialog shown and then confirmed, both logged without time, is distilled
\* as unresolved
C24_Witness ==
    /\ pc = "distilled"
    /\ Len(rawLogs) = 3
    /\ rawLogs[2].kind = "modal:show" /\ rawLogs[2].perfTs = 0
    /\ rawLogs[3].kind = "modal:confirm" /\ rawLogs[3].perfTs = 0
    /\ Len(steps) = 1
    /\ ModalActions(steps[1]) = <<"unknown">>

\* the events of the log are listed in strictly ascending time
StrictlyTimed(log) ==
    \A i \in 1..(Len(log) - 1) : log[i].perfTs < log[i + 1].perfTs

C24_HoldsWhenStrictlyTimed ==
    (pc = "distilled" /\ rawLogs # <<>> /\ StrictlyTimed(rawLogs))
        => /\ Len(steps) = 1
           /\ ModalActions(steps[1]) = PairedByPosition(rawLogs)

----------------------------------------------------------------------------
\* the click steps of the journey, in order: the k-th is the step of the
\* k-th click bucket of the log
ClickSteps == SelectSeq(steps, LAMBDA st : st.action = "click")

BucketAt(k) == SelectSeq(rawLogs, LAMBDA e : e.traceId = TraceIdOf(k))

\* the positions of the log that hold a snapshot of collection c
SnapshotAt(c) ==
    {i \in 1..Len(rawLogs) :
        /\ rawLogs[i].kind = "state:changes"
        /\ rawLogs[i].diffJson # <<>>
        /\ rawLogs[i].diffJson[1].path = c
        /\ rawLogs[i].diffJson[1].isArray}

LabelsAt(i) == rawLogs[i].diffJson[1].after

\* the position of the snapshot of c in the k-th click bucket, 0 without one
NewSnapshot(k, c) ==
    LET at == {i \in SnapshotAt(c) : rawLogs[i].traceId = TraceIdOf(k)}
    IN  IF at = {} THEN 0 ELSE CHOOSE i \in at : TRUE

\* the position of the most recent snapshot of c before position i, 0
\* without one
PreviousSnapshot(i, c) ==
    LET at == {j \in SnapshotAt(c) : j < i}
    IN  IF at = {} THEN 0 ELSE CHOOSE j \in at : \A r \in at : r <= j

HasMutatingCall(k) ==
    \E i \in 1..Len(rawLogs) :
        /\ rawLogs[i].traceId = TraceIdOf(k)
        /\ rawLogs[i].kind = "api:complete"
        /\ rawLogs[i].method.text \in MutatingMethods

Absent(labels, others) == SelectSeq(labels, LAMBDA l : l \notin Range(others))

ChangesAgainstLog(k) ==
    LET entry(c) ==
            LET new == NewSnapshot(k, c)
                prev == PreviousSnapshot(new, c)
                added == Absent(LabelsAt(new), LabelsAt(prev))
                removed == Absent(LabelsAt(prev), LabelsAt(new))
            IN  IF /\ new # 0 /\ prev # 0 /\ HasMutatingCall(k)
                   /\ (added # <<>> \/ removed # <<>>)
                THEN <<[source |-> c, added |-> added, removed |-> removed]>>
                ELSE <<>>
    IN  entry("DataSource:files") \o entry("DataSource:users")

\* C23: a step's snapshot of a collection is diffed against the most recent
\* snapshot of the collection earlier in the log, wherever it was logged:
\* in a click bucket, in the startup bucket or in a bucket without step.
C23_DiffAgainstMostRecentSnapshotInLog ==
    pc = "distilled" =>
        /\ Len(ClickSteps) = NumClicks(rawLogs)
        /\ \A k \in 1..Len(ClickSteps) :
              ClickSteps[k].dataSourceChanges = ChangesAgainstLog(k)

\* the startup trace logs the files, the first click posts and logs one
\* more file, and the step has no dataSourceChanges
C23_Witness ==
    /\ pc = "distilled"
    /\ Len(rawLogs) = 5
    /\ rawLogs[2] = StateChange("startup-1", "DataSource:files", TRUE, <<"a">>)
    /\ rawLogs[5] = StateChange("t1", "DataSource:files", TRUE, <<"a", "b">>)
    /\ HasMutatingCall(1)
    /\ Len(ClickSteps) = 1
    /\ ClickSteps[1].dataSourceChanges = <<>>

\* with every snapshot logged in a click bucket the diff is against the most
\* recent snapshot of the log
C23_HoldsForClickBuckets ==
    (pc = "distilled" /\ \A i \in 1..Len(rawLogs) :
                            rawLogs[i].traceId \notin {"bg", "startup-1"})
        => \A k \in 1..Len(ClickSteps) :
              ClickSteps[k].dataSourceChanges = ChangesAgainstLog(k)

----------------------------------------------------------------------------
\* the submission before submission s of the generated journey, 0 for none
PreviousSubmit(s) ==
    LET before == {t \in SubmitIndexes(orderedSteps) : t < s}
    IN  IF before = {} THEN 0 ELSE CHOOSE t \in before : \A u \in before : u <= t

\* the named text fields with keystroke or click steps between the previous
\* submission and submission s
FieldsBefore(s) ==
    {orderedSteps[i].target.ariaName : i \in
        {i \in (PreviousSubmit(s) + 1)..(s - 1) :
            /\ orderedSteps[i].action \in {"click", "keydown"}
            /\ orderedSteps[i].target.ariaRole = "textbox"
            /\ orderedSteps[i].target.ariaName # ""}}

MatchedField(s, ariaName) ==
    BestMatch(StringFields(orderedSteps[s].target.formData), ariaName)

\* the fill instructions for a text field emitted between the previous
\* submission and submission s, as block and line
FillsBefore(s, ariaName) ==
    {bl \in ((PreviousSubmit(s) + 1)..(s - 1)) \X (1..4) :
        /\ bl[2] <= Len(script.blocks[bl[1]].lines)
        /\ script.blocks[bl[1]].lines[bl[2]].kind = "fill"
        /\ script.blocks[bl[1]].lines[bl[2]].name = ariaName}

\* C25: for each submission and each named text field with keystroke or
\* click steps since the previous submission and a matching form-data field,
\* the script holds exactly one fill instruction for the field in that span,
\* with the value of the matched field of this submission.
C25_OneFillPerFieldPerForm ==
    (pc = "generated" /\ script.error = "") =>
        \A s \in SubmitIndexes(orderedSteps) :
        \A ariaName \in FieldsBefore(s) :
            MatchedField(s, ariaName) # <<>> =>
                /\ Cardinality(FillsBefore(s, ariaName)) = 1
                /\ \A bl \in FillsBefore(s, ariaName) :
                      script.blocks[bl[1]].lines[bl[2]].value
                          = MatchedField(s, ariaName)[1].value

\* the Name field is clicked twice before the first submission and typed
\* into before the second: both fills are emitted before the first
\* submission, the second one with the value of the second submission
C25_Witness ==
    /\ pc = "generated"
    /\ script.error = ""
    /\ journey = <<TextboxClick("Name"), TextboxClick("Name"), SubmitClick("v1"),
                   Key("Name", "a"), SubmitClick("v2")>>
    /\ Cardinality(FillsBefore(3, "Name")) = 2
    /\ FillsBefore(5, "Name") = {}
    /\ script.blocks[2].lines[2].value = "v2"

\* with each text field touched once before each submission the fills are as
\* claimed
TouchedOnce ==
    \A s \in SubmitIndexes(orderedSteps) :
        /\ StringFields(orderedSteps[s].target.formData) # <<>>
        /\ \A i, j \in (PreviousSubmit(s) + 1)..(s - 1) :
              (/\ i # j
               /\ orderedSteps[i].target.ariaRole = "textbox"
               /\ orderedSteps[j].target.ariaRole = "textbox")
                 => orderedSteps[i].target.ariaName # orderedSteps[j].target.ariaName

C25_HoldsWhenTouchedOnce ==
    (pc = "generated" /\ script.error = "" /\ TouchedOnce) =>
        \A s \in SubmitIndexes(orderedSteps) :
        \A ariaName \in FieldsBefore(s) :
            MatchedField(s, ariaName) # <<>> =>
                /\ Cardinality(FillsBefore(s, ariaName)) = 1
                /\ \A bl \in FillsBefore(s, ariaName) :
                      script.blocks[bl[1]].lines[bl[2]].value
                          = MatchedField(s, ariaName)[1].value

\* C26: buildFillPlan plans no two different accessible names to be filled
\* from the same field of the same submission.
C26_FieldClaimedByOneName ==
    pc = "generated" =>
        LET queues == buildFillPlan(orderedSteps).queues
        IN  \A n1, n2 \in DOMAIN queues :
            \A i \in 1..Len(queues[n1]), j \in 1..Len(queues[n2]) :
                (/\ queues[n1][i].fieldName = queues[n2][j].fieldName
                 /\ queues[n1][i].submitIndex = queues[n2][j].submitIndex)
                    => n1 = n2

\* Name and User Name: are typed into before one submission with the field
\* name, and both are planned to be filled from it
C26_Witness ==
    /\ pc = "generated"
    /\ journey = <<Key("Name", "a"), Key("User Name:", "b"), SubmitClick("v1")>>
    /\ LET queues == buildFillPlan(orderedSteps).queues
       IN  /\ queues["Name"] = <<[fieldName |-> "name", value |-> "v1", submitIndex |-> 3]>>
           /\ queues["User Name:"] = queues["Name"]
====
